---- MODULE Spec2Model ----
(***************************************************************************)
(* Model of the spec merge pipeline of equinix-docs-mcp-server:            *)
(* SpecManager (fetch, cache, per-namespace merge, auth normalization,     *)
(* top-level assembly), deep_merge, _update_references and the $defs       *)
(* closure extractor of EquinixMCPServer.                                  *)
(*                                                                         *)
(* Documents are JSON trees.  A tree is a record [t, v]:                   *)
(*   t = "leaf": v is a string, kept as the sequence of its pieces (the    *)
(*               "/"-separated segments of a $ref, the characters of an    *)
(*               operationId), so that split, startswith and               *)
(*               concatenation are computed, not assumed;                  *)
(*   t = "map":  v is a function from keys to trees (a Python dict);       *)
(*   t = "list": v is a sequence of trees (a Python list).                 *)
(***************************************************************************)
EXTENDS Integers, Sequences, FiniteSets, TLC

VARIABLES
  arg,          \* input of the pure function under check
  res,          \* its result, or the state of its loop
  pc,           \* position of the function under check
  rawCache,     \* cache directory: the file {spec_key}.yaml of each spec key
  mergedCache,  \* cache directory: the file {api_name}-merged.yaml of each namespace
  task,         \* the _process_api_group coroutine of each namespace
  merged,       \* what the last get_merged_spec call returned
  lastFetch     \* the last _fetch_and_cache_spec call: key, outcome, value returned

pureVars == <<arg, res, pc>>
mgrVars == <<rawCache, mergedCache, task, merged, lastFetch>>
vars == <<arg, res, pc, rawCache, mergedCache, task, merged, lastFetch>>

\* No SpecManager exists where a function is checked on its own.
NoManager ==
  /\ rawCache = <<>> /\ mergedCache = <<>> /\ task = <<>>
  /\ merged = <<>> /\ lastFetch = <<>>

-----------------------------------------------------------------------------
(* JSON trees *)

Leaf(s) == [t |-> "leaf", v |-> s]
Map(f) == [t |-> "map", v |-> f]
List(s) == [t |-> "list", v |-> s]
Str(x) == Leaf(<<x>>)
EmptyDict == <<>>
\* The outcome of a Python call that raised.
Raised == [t |-> "raised", v |-> <<>>]

IsMap(x) == x.t = "map"
IsList(x) == x.t = "list"
IsLeaf(x) == x.t = "leaf"
Has(x, k) == IsMap(x) /\ k \in DOMAIN x.v

\* Items of a sequence as a set.
Range(s) == {s[i] : i \in DOMAIN s}

-----------------------------------------------------------------------------
(* deep_merge(d, u): spec_manager.py 26-39.  d is any tree, u a dict (a    *)
(* function).  The loop body runs once per key of u; on a d that is not a  *)
(* dict the first iteration raises (d.get / d[k] = v), and with an empty u *)
(* d is returned as it is.                                                 *)

\* The slip d.update(u): a dict of u replaces the one of d instead of being merged into it.
deep_merge_shallow(d, u) ==
  IF DOMAIN u = {} THEN d
  ELSE IF ~IsMap(d) THEN Raised
  ELSE Map([k \in (DOMAIN d.v) \cup (DOMAIN u) |-> IF k \in DOMAIN u THEN u[k] ELSE d.v[k]])

RECURSIVE deep_merge(_, _)
deep_merge(d, u) ==
  IF DOMAIN u = {} THEN d
  ELSE IF ~IsMap(d) THEN Raised
  ELSE LET sub(k) == IF IsMap(u[k])
                     THEN deep_merge(IF k \in DOMAIN d.v THEN d.v[k] ELSE Map(EmptyDict),
                                     u[k].v)
                     ELSE u[k]
       IN IF \E k \in DOMAIN u : sub(k) = Raised
          THEN Raised
          ELSE Map([k \in (DOMAIN d.v) \cup (DOMAIN u) |->
                      IF k \in DOMAIN u THEN sub(k) ELSE d.v[k]])

\* Value at a path of keys below a tree; Undef where the path leaves the tree.
Undef == [t |-> "undef", v |-> <<>>]
RECURSIVE Get(_, _)
Get(x, p) ==
  IF p = <<>> THEN x
  ELSE IF Has(x, Head(p)) THEN Get(x.v[Head(p)], Tail(p))
  ELSE Undef

-----------------------------------------------------------------------------
(* Folding schema bags into an empty $defs, as get_merged_spec does for    *)
(* each namespace (spec_manager.py 410-429).  arg is the pair of bags, pc  *)
(* the order in which they have been applied, res the $defs so far.        *)

MaxBagKeys == 2
SchemaNames == <<"A", "B", "C">>
BagKeys == {SchemaNames[i] : i \in 1..MaxBagKeys}
BagVals ==
  { List(<<Str("s1")>>), Map(EmptyDict),
    Map(("type" :> Str("s1")) @@ ("p" :> Str("s1"))),
    Map(("type" :> Str("s2")) @@ ("fmt" :> Str("s2"))),
    Map("p" :> Map("type" :> Str("s2"))) }
Bags == UNION {[ks -> BagVals] : ks \in SUBSET BagKeys}

MergeInit ==
  /\ NoManager
  /\ arg \in [{1, 2} -> Bags]
  /\ res = Map(EmptyDict)
  /\ pc = <<>>

ApplyBag(i) ==
  /\ i \notin Range(pc)
  /\ res # Raised
  /\ res' = deep_merge(res, arg[i])
  /\ pc' = Append(pc, i)
  /\ UNCHANGED <<arg, mgrVars>>

MergeNext == \E i \in {1, 2} : ApplyBag(i)

SpecMerge == MergeInit /\ [][MergeNext]_vars

\* The key paths that lead to a value in a tree.
RECURSIVE PathsOf(_)
PathsOf(x) ==
  {<<>>} \cup (IF IsMap(x)
               THEN UNION {{<<k>> \o p : p \in PathsOf(x.v[k])} : k \in DOMAIN x.v}
               ELSE {})
\* x has a value that is not a dict at p.
NonMapAt(x, p) == Get(x, p) # Undef /\ ~IsMap(Get(x, p))
\* A dict with at least one key at p.
FullMapAt(x, p) == IsMap(Get(x, p)) /\ DOMAIN Get(x, p).v # {}
\* deep_merge raises: the later tree has a non-empty dict where the earlier has a non-dict.
Clash(e, l) == \E p \in PathsOf(e) : NonMapAt(e, p) /\ FullMapAt(l, p)
\* What the merge of e then l holds at each path, stated leaf by leaf.
LeafWise(e, l, r) ==
  \A p \in PathsOf(e) \cup PathsOf(l) \cup PathsOf(r) :
    /\ NonMapAt(l, p) => Get(r, p) = Get(l, p)
    /\ (NonMapAt(e, p) /\ \A n \in 0..Len(p) : ~NonMapAt(l, SubSeq(p, 1, n)))
         => Get(r, p) = Get(e, p)
    /\ Get(r, p) # Undef => (Get(e, p) # Undef \/ Get(l, p) # Undef)

MergeDone == Len(pc) = 2
Earlier == Map(arg[pc[1]])
Later == Map(arg[pc[2]])

\* C8 (amended): disjoint bags give their union in either order; on a shared key a
\* later value that is not a dict replaces the earlier one, two dicts are merged
\* recursively leaf by leaf with the later leaf kept, and the merge raises exactly
\* when a non-empty dict is merged onto a value that is not a dict.
C8_DeepMergeLeafWise ==
  MergeDone =>
    /\ (DOMAIN arg[1] \cap DOMAIN arg[2] = {}) =>
          res = Map([k \in DOMAIN arg[1] \cup DOMAIN arg[2] |->
                       IF k \in DOMAIN arg[1] THEN arg[1][k] ELSE arg[2][k]])
    /\ (res = Raised) <=> Clash(Earlier, Later)
    /\ res # Raised =>
          /\ LeafWise(Earlier, Later, res)
          /\ \A k \in DOMAIN arg[pc[2]] : ~IsMap(arg[pc[2]][k]) => res.v[k] = arg[pc[2]][k]

\* C8 witness: both bags define the same key with dict values and both were applied.
C8_Witness ==
  /\ MergeDone
  /\ res # Raised
  /\ \E k \in DOMAIN arg[1] \cap DOMAIN arg[2] :
        /\ FullMapAt(Earlier, <<k>>) /\ FullMapAt(Later, <<k>>)
        /\ Earlier.v[k] # Later.v[k]

\* C8 as stated: on a shared key the value applied last is the value of the key.
C8_LastValueWins ==
  (MergeDone /\ res # Raised) =>
    \A k \in DOMAIN arg[1] \cap DOMAIN arg[2] : res.v[k] = arg[pc[2]][k]

-----------------------------------------------------------------------------
(* $ref strings.  "#/$defs/X" is kept as <<"#", "$defs", "X">>, the result *)
(* of split("/"); startswith("#/$defs/") holds when the first two segments *)
(* are "#" and "$defs" and a third one follows.                            *)

DefsRef(n) == Leaf(<<"#", "$defs", n>>)
SchemaRef(n) == Leaf(<<"#", "components", "schemas", n>>)
StartsWithDefs(s) == Len(s) >= 3 /\ s[1] = "#" /\ s[2] = "$defs"
StartsWithSchemas(s) ==
  Len(s) >= 4 /\ s[1] = "#" /\ s[2] = "components" /\ s[3] = "schemas"
LastSegment(s) == s[Len(s)]

\* The slip of leaving out the list branch: refs below allOf/anyOf/items lists are missed.
RECURSIVE _collect_defs_references_no_lists(_)
_collect_defs_references_no_lists(obj) ==
  IF IsMap(obj)
  THEN (IF "$ref" \in DOMAIN obj.v /\ IsLeaf(obj.v["$ref"]) /\ StartsWithDefs(obj.v["$ref"].v)
        THEN {LastSegment(obj.v["$ref"].v)} ELSE {})
       \cup UNION {_collect_defs_references_no_lists(obj.v[k]) : k \in DOMAIN obj.v}
  ELSE {}

\* EquinixMCPServer._collect_defs_references: main.py 583-595.
RECURSIVE _collect_defs_references(_)
_collect_defs_references(obj) ==
  IF IsMap(obj)
  THEN (IF "$ref" \in DOMAIN obj.v /\ IsLeaf(obj.v["$ref"]) /\ StartsWithDefs(obj.v["$ref"].v)
        THEN {LastSegment(obj.v["$ref"].v)} ELSE {})
       \cup UNION {_collect_defs_references(obj.v[k]) : k \in DOMAIN obj.v}
  ELSE IF IsList(obj)
  THEN UNION {_collect_defs_references(obj.v[i]) : i \in DOMAIN obj.v}
  ELSE {}

\* One pass of the while loop of _closure_defs (main.py 601-610): every name of the
\* snapshot list(used) whose entry is a dict adds the names its schema references.
ClosurePassUsed(used, defs) ==
  used \cup UNION {IF n \in DOMAIN defs /\ IsMap(defs[n])
                   THEN _collect_defs_references(defs[n]) ELSE {} : n \in used}

\* The returned dict (main.py 611).
ClosureResult(used, defs) == [n \in used \cap DOMAIN defs |-> defs[n]]

(* _closure_defs(start, defs) as a loop: arg = [start, defs], res = [used,  *)
(* changed, passes], pc = "while" until the loop ends, then "done" with    *)
(* res = [out].                                                            *)

MaxDefs == 3
DefNames == <<"Order", "LineItem", "Money", "Tax">>
Names == {DefNames[i] : i \in 1..MaxDefs}
NextName(n) == LET i == CHOOSE j \in 1..MaxDefs : DefNames[j] = n
               IN DefNames[(i % MaxDefs) + 1]
PlainSchema == Map("type" :> Str("object"))
PropRef(n) == Map(("type" :> Str("object")) @@
                  ("properties" :> Map("item" :> Map("$ref" :> DefsRef(n)))))
AllOfRefs(n) == Map("allOf" :> List(<<Map("$ref" :> DefsRef(NextName(n))),
                                      Map("$ref" :> SchemaRef(n))>>))
SchemaPool == {PlainSchema} \cup {PropRef(n) : n \in Names}
                \cup {AllOfRefs(n) : n \in Names}
DefsBags == UNION {[ks -> SchemaPool] : ks \in SUBSET Names}
Starts == {s \in SUBSET Names : Cardinality(s) <= 1} \cup {{DefNames[1], DefNames[2]}}

ClosureInit ==
  /\ NoManager
  /\ arg \in [start : Starts, defs : DefsBags]
  /\ res = [used |-> arg.start, changed |-> TRUE, passes |-> 0]
  /\ pc = "while"

ClosurePass ==
  /\ pc = "while"
  /\ res.changed
  /\ LET used == ClosurePassUsed(res.used, arg.defs)
     IN res' = [used |-> used, changed |-> used # res.used, passes |-> res.passes + 1]
  /\ UNCHANGED <<arg, pc, mgrVars>>

ClosureReturn ==
  /\ pc = "while"
  /\ ~res.changed
  /\ res' = [out |-> ClosureResult(res.used, arg.defs)]
  /\ pc' = "done"
  /\ UNCHANGED <<arg, mgrVars>>

ClosureNext == ClosurePass \/ ClosureReturn

SpecClosure == ClosureInit /\ [][ClosureNext]_vars

\* Every tree inside x, x included.
RECURSIVE PlacesOf(_)
PlacesOf(x) ==
  {x} \cup (IF IsMap(x) THEN UNION {PlacesOf(x.v[k]) : k \in DOMAIN x.v}
            ELSE IF IsList(x) THEN UNION {PlacesOf(x.v[i]) : i \in DOMAIN x.v}
            ELSE {})
\* x holds a "#/$defs/b" reference.
References(x, b) == \E y \in PlacesOf(x) : Has(y, "$ref") /\ y.v["$ref"] = DefsRef(b)
\* V contains every name referenced by an entry of defs that V names.
ClosedUnder(V, defs) ==
  \A a \in V \cap DOMAIN defs : \A b \in Names : References(defs[a], b) => b \in V
\* The names reachable from start: the least set that holds start and is closed.
Reachable(start, defs) ==
  {n \in Names : \A V \in SUBSET Names : (start \subseteq V /\ ClosedUnder(V, defs)) => n \in V}

\* C9: _closure_defs returns exactly the entries of defs reachable from start through
\* "#/$defs/X" references, and its loop ends (also on cyclic schemas) after at most
\* one pass per name plus one.
C9_ClosureExact ==
  /\ pc = "done" =>
        res.out = [n \in Reachable(arg.start, arg.defs) \cap DOMAIN arg.defs |-> arg.defs[n]]
  /\ pc = "while" => (ENABLED ClosureNext /\ res.passes <= Cardinality(Names) + 1)

\* C9 witness: a cycle of references is reachable from start through a list, one
\* entry of defs is not reachable, and the closure has been returned.
C9_Witness ==
  /\ pc = "done"
  /\ \E a \in DOMAIN arg.defs, b \in DOMAIN arg.defs :
        /\ a # b /\ a \in arg.start /\ b \notin arg.start
        /\ arg.defs[a] = AllOfRefs(NextName(NextName(a)))
        /\ NextName(a) = b
        /\ References(arg.defs[b], a)
  /\ DOMAIN res.out # DOMAIN arg.defs
  /\ Cardinality(DOMAIN res.out) >= 2

-----------------------------------------------------------------------------
(* Documents.  A document is a dict of its top-level keys; doc["paths"]    *)
(* maps each path (the sequence of its pieces, the slashes included:       *)
(* "/v1/widgets" is <<"/", "v1", "/", "widgets">>) to its path item, a     *)
(* tree; every other key holds a tree.                                     *)

\* dict.get(k, default) on a document or on the dict of a tree.
GetOr(f, k, default) == IF k \in DOMAIN f THEN f[k] ELSE default
\* The Python value True.
True == [t |-> "bool", v |-> <<"True">>]
\* Python truthiness of a tree: an empty dict, list or string is falsy.
Truthy(x) ==
  \/ IsMap(x) /\ DOMAIN x.v # {}
  \/ IsList(x) /\ x.v # <<>>
  \/ IsLeaf(x) /\ x.v # <<>>
  \/ x = True
\* `x or {}`
OrEmpty(x) == IF Truthy(x) THEN x ELSE Map(EmptyDict)
\* d with key k set to x / without key k.
Put(f, k, x) == [j \in DOMAIN f \cup {k} |-> IF j = k THEN x ELSE f[j]]
\* d with key k set to x where cond holds.
PutIf(cond, d, k, x) == IF cond THEN Put(d, k, x) ELSE d
Drop(f, k) == [j \in DOMAIN f \ {k} |-> f[j]]
\* dict.update: the entries of g over those of f.
Update(f, g) == [k \in DOMAIN f \cup DOMAIN g |-> IF k \in DOMAIN g THEN g[k] ELSE f[k]]
\* dict.setdefault(k, x): the dict afterwards.
SetDefault(f, k, x) == IF k \in DOMAIN f THEN f ELSE Put(f, k, x)

\* str.lower() on the pieces of the strings that occur.
LowerPiece(c) ==
  CASE c \in {"Authorization", "AUTHORIZATION"} -> "authorization"
    [] c \in {"Bearer", "BEARER"} -> "bearer"
    [] c = "Basic" -> "basic"
    [] c = "GET" -> "get"
    [] c = "POST" -> "post"
    [] c = "Parameters" -> "parameters"
    [] c = "LIST" -> "list"
    [] c \in {"Widget", "WIDGET"} -> "widget"
    [] c = "Widgets" -> "widgets"
    [] OTHER -> c
Lower(s) == [i \in DOMAIN s |-> LowerPiece(s[i])]
\* str.strip(): leading and trailing blanks removed.
RECURSIVE Strip(_)
Strip(s) ==
  IF s = <<>> THEN s
  ELSE IF Head(s) = " " THEN Strip(Tail(s))
  ELSE IF s[Len(s)] = " " THEN Strip(SubSeq(s, 1, Len(s) - 1))
  ELSE s
\* str(x) of a value got with a default "" / None.
TextOf(x) == IF IsLeaf(x) THEN x.v ELSE <<>>

HttpMethods == {"get", "put", "post", "delete", "patch", "head", "options", "trace"}

\* param.get("x-prefix") or param.get("x_prefix"); Undef stands for None.
XPrefix(p) ==
  IF "x-prefix" \in DOMAIN p.v /\ Truthy(p.v["x-prefix"])
  THEN p.v["x-prefix"]
  ELSE GetOr(p.v, "x_prefix", Undef)

\* _is_inline_auth_param (spec_manager.py 297-307) and the same test on a
\* components.parameters entry (264-274).
IsAuthHeader(p) ==
  /\ IsMap(p)
  /\ GetOr(p.v, "in", Undef) = Str("header")
  /\ Lower(TextOf(GetOr(p.v, "name", Leaf(<<>>)))) = <<"authorization">>
  /\ LET xp == XPrefix(p)
     IN xp = Undef \/ (Strip(TextOf(xp)) # <<>> /\ Lower(Strip(TextOf(xp)))[1] = "bearer")

\* auth_param_keys (spec_manager.py 259-275).
AuthParamKeys(comp_params) == {k \in DOMAIN comp_params : IsAuthHeader(comp_params[k])}

StartsWithParameters(s) ==
  Len(s) >= 4 /\ s[1] = "#" /\ s[2] = "components" /\ s[3] = "parameters"
\* The test that drops a parameter of an operation (spec_manager.py 322-337).
IsDroppedParam(p, keys) ==
  \/ /\ IsMap(p) /\ "$ref" \in DOMAIN p.v /\ IsLeaf(p.v["$ref"])
     /\ StartsWithParameters(p.v["$ref"].v)
     /\ LastSegment(p.v["$ref"].v) \in keys
  \/ IsAuthHeader(p)

\* The sequence without the items that satisfy Test.
RECURSIVE KeepParams(_, _)
KeepParams(params, keys) ==
  IF params = <<>> THEN <<>>
  ELSE IF IsDroppedParam(Head(params), keys) THEN KeepParams(Tail(params), keys)
  ELSE <<Head(params)>> \o KeepParams(Tail(params), keys)

\* The slip of leaving out `if "security" not in op`.
PromoteOperationOverwrite(op, keys) ==
  LET got == OrEmpty(GetOr(op.v, "parameters", List(<<>>)))
      params == IF IsList(got) THEN got.v ELSE <<>>
      new_params == KeepParams(params, keys)
  IN IF new_params # params
     THEN IF new_params # <<>> THEN Map(Put(op.v, "parameters", List(new_params)))
          ELSE Map(Drop(op.v, "parameters"))
     ELSE Map(Put(op.v, "security", List(<<>>)))

\* The slip of setting `security: []` on every operation, found_auth or not.
PromoteOperationAlwaysOptOut(op, keys) ==
  LET got == OrEmpty(GetOr(op.v, "parameters", List(<<>>)))
      params == IF IsList(got) THEN got.v ELSE <<>>
      new_params == KeepParams(params, keys)
      stripped == IF new_params = params THEN op.v
                  ELSE IF new_params # <<>> THEN Put(op.v, "parameters", List(new_params))
                  ELSE Drop(op.v, "parameters")
  IN Map(SetDefault(stripped, "security", List(<<>>)))

\* The body of the loop over operations (spec_manager.py 318-350).
PromoteOperation(op, keys) ==
  LET got == OrEmpty(GetOr(op.v, "parameters", List(<<>>)))
      params == IF IsList(got) THEN got.v ELSE <<>>
      new_params == KeepParams(params, keys)
      found_auth == new_params # params
  IN IF found_auth
     THEN IF new_params # <<>> THEN Map(Put(op.v, "parameters", List(new_params)))
          ELSE Map(Drop(op.v, "parameters"))
     ELSE Map(SetDefault(op.v, "security", List(<<>>)))

BearerAuth ==
  Map(("type" :> Str("http")) @@ ("scheme" :> Str("bearer")) @@ ("bearerFormat" :> Str("JWT")))
IsBearerScheme(x) ==
  IsMap(x) /\ GetOr(x.v, "type", Undef) = Str("http") /\ GetOr(x.v, "scheme", Undef) = Str("bearer")

\* spec_manager.py 277-290: a BearerAuth scheme is added when no http bearer scheme
\* exists.  The dicts are changed in place, so the scheme reaches the document only
\* through a securitySchemes / components dict that is the document's own (a
\* missing or empty one is replaced by a fresh dict, which setdefault stores only
\* where the key is missing).
EnsureBearerScheme(spec) ==
  LET components == OrEmpty(GetOr(spec, "components", Map(EmptyDict)))
      ownComponents == "components" \notin DOMAIN spec \/ Truthy(spec["components"])
      sec_schemes == OrEmpty(GetOr(components.v, "securitySchemes", Map(EmptyDict)))
      ownSchemes == "securitySchemes" \notin DOMAIN components.v
                      \/ Truthy(components.v["securitySchemes"])
  IN IF \E k \in DOMAIN sec_schemes.v : IsBearerScheme(sec_schemes.v[k])
     THEN spec
     ELSE IF ownComponents /\ ownSchemes
     THEN Put(spec, "components",
              Map(Put(components.v, "securitySchemes",
                      Map(SetDefault(sec_schemes.v, "BearerAuth", BearerAuth)))))
     ELSE spec

\* auth_param_keys of a document (spec_manager.py 257-275).
AuthParamKeysOf(spec) ==
  AuthParamKeys(OrEmpty(GetOr(OrEmpty(GetOr(spec, "components", Map(EmptyDict))).v,
                              "parameters", Map(EmptyDict))).v)
\* One path item after the loop over its operations (spec_manager.py 303-350).
PromoteItem(path_item, keys) ==
  IF ~IsMap(path_item) THEN path_item
  ELSE Map([mth \in DOMAIN path_item.v |->
              IF LowerPiece(mth) \in HttpMethods /\ IsMap(path_item.v[mth])
              THEN PromoteOperation(path_item.v[mth], keys)
              ELSE path_item.v[mth]])
PromotePaths(spec, keys) ==
  PutIf(DOMAIN GetOr(spec, "paths", <<>>) # {}, spec, "paths",
        [p \in DOMAIN GetOr(spec, "paths", <<>>) |-> PromoteItem(spec["paths"][p], keys)])

\* SpecManager._promote_auth_header_to_security: spec_manager.py 241-350.
_promote_auth_header_to_security(spec) ==
  PromotePaths(EnsureBearerScheme(spec), AuthParamKeysOf(spec))

(* _promote_auth_header_to_security on one document: arg is the document,  *)
(* res the document after the call.                                        *)

MaxParams == 2
HeaderParam(name) == Map(("name" :> Str(name)) @@ ("in" :> Str("header")))
WithPrefix(p, pieces) == Map(Put(p.v, "x-prefix", Leaf(pieces)))
ParamRef(n) == Map("$ref" :> Leaf(<<"#", "components", "parameters", n>>))
ParamPool ==
  { HeaderParam("Authorization"),
    WithPrefix(HeaderParam("authorization"), <<" ", "Bearer", " ">>),
    WithPrefix(HeaderParam("Authorization"), <<"Basic">>),
    Map(("name" :> Str("Authorization")) @@ ("in" :> Str("query"))),
    HeaderParam("X-Request-Id"),
    ParamRef("AuthHeader"), ParamRef("Limit"), ParamRef("BasicHeader") }
ParamLists == UNION {[1..n -> ParamPool] : n \in 0..MaxParams}
ComponentParameters ==
  Map(("AuthHeader" :> HeaderParam("AUTHORIZATION")) @@
      ("Limit" :> Map(("name" :> Str("limit")) @@ ("in" :> Str("query")))) @@
      ("BasicHeader" :> WithPrefix(HeaderParam("Authorization"), <<"Basic">>)))
ClientCredentialsScheme ==
  Map(("type" :> Str("oauth2")) @@
      ("flows" :> Map("clientCredentials" :>
                        Map(("tokenUrl" :> Str("token_url")) @@ ("scopes" :> Map(EmptyDict))))))
ComponentsPool ==
  { Map(("parameters" :> ComponentParameters) @@
        ("securitySchemes" :> Map("ClientCredentials" :> ClientCredentialsScheme))),
    Map("securitySchemes" :> Map(EmptyDict)) }
SecurityPool == {List(<<>>), List(<<Map("ClientCredentials" :> List(<<>>))>>)}
\* The operations: with or without parameters, with or without security.
OperationPool ==
  LET base == "operationId" :> Str("listWidgets")
  IN {Map(f) : f \in
        {base} \cup {Put(base, "parameters", List(ps)) : ps \in ParamLists}}
     \cup {Map(Put(f, "security", sec)) : sec \in SecurityPool, f \in
        {base} \cup {Put(base, "parameters", List(ps)) : ps \in ParamLists}}
\* One path whose item holds the operation and path-level parameters.
AuthDoc(mth, op, comps) ==
  LET item == Map((mth :> op) @@
                  ("parameters" :> List(<<HeaderParam("Authorization")>>)))
      doc == ("openapi" :> Str("3.0.0")) @@ ("paths" :> (<<"/", "widgets">> :> item))
  IN IF comps = Undef THEN doc ELSE Put(doc, "components", comps)

AuthInit ==
  /\ NoManager
  /\ arg \in {AuthDoc(mth, op, comps) : mth \in {"get", "POST"}, op \in OperationPool,
                                         comps \in ComponentsPool \cup {Undef}}
  /\ res = Undef
  /\ pc = "call"

Promote ==
  /\ pc = "call"
  /\ res' = _promote_auth_header_to_security(arg)
  /\ pc' = "done"
  /\ UNCHANGED <<arg, mgrVars>>

AuthNext == Promote

SpecAuth == AuthInit /\ [][AuthNext]_vars

\* The operations of a document as <<path, method>> pairs.
OperationsOf(doc) ==
  {pm \in UNION {{<<p, mth>> : mth \in DOMAIN doc["paths"][p].v} : p \in DOMAIN doc["paths"]} :
     LowerPiece(pm[2]) \in HttpMethods}
OpAt(doc, pm) == doc["paths"][pm[1]].v[pm[2]]
ParamsOf(op) == IF Has(op, "parameters") THEN Range(op.v["parameters"].v) ELSE {}
\* An Authorization header parameter: in the header, named authorization in any
\* case, with no x-prefix or one that starts with "bearer".
AuthorizationHeader(p) ==
  /\ Has(p, "in") /\ p.v["in"] = Str("header")
  /\ Has(p, "name") /\ p.v["name"] \in {Str("Authorization"), Str("authorization"), Str("AUTHORIZATION")}
  /\ Has(p, "x-prefix") => p.v["x-prefix"].v \in {<<"Bearer">>, <<" ", "Bearer", " ">>}
\* p is such a parameter, inline or through a $ref to components.parameters.
IsAuthorization(doc, p) ==
  \/ AuthorizationHeader(p)
  \/ /\ Has(p, "$ref") /\ "components" \in DOMAIN doc
     /\ \E n \in DOMAIN Get(doc["components"], <<"parameters">>).v :
           /\ p = ParamRef(n)
           /\ AuthorizationHeader(doc["components"].v["parameters"].v[n])
HadAuthorization(doc, op) == \E p \in ParamsOf(op) : IsAuthorization(doc, p)

C6_OptOutOrKeep ==
  pc = "done" =>
    \A pm \in OperationsOf(arg) :
      LET before == OpAt(arg, pm)
          after == OpAt(res, pm)
      IN /\ (~HadAuthorization(arg, before) /\ ~Has(before, "security"))
              => (Has(after, "security") /\ after.v["security"] = List(<<>>))
         /\ Has(before, "security")
              => (Has(after, "security") /\ after.v["security"] = before.v["security"])

\* C6 witness: an operation with other parameters only and no security was given
\* `security: []`, its parameters untouched.
C6_Witness ==
  /\ pc = "done"
  /\ \E pm \in OperationsOf(arg) :
        /\ ParamsOf(OpAt(arg, pm)) # {}
        /\ ~HadAuthorization(arg, OpAt(arg, pm))
        /\ ~Has(OpAt(arg, pm), "security")
        /\ OpAt(res, pm) = Map(Put(OpAt(arg, pm).v, "security", List(<<>>)))

-----------------------------------------------------------------------------
(* Swagger2OpenAPIConverter: converter.py.  The converter changes a deep   *)
(* copy of its argument in place; here each step is a function of the      *)
(* document before it.  Schemas, operations, parameters and responses are  *)
(* dicts, as in every Swagger 2.0 document.                                *)

\* _fix_up_sub_schema (converter.py 50-63) on the dict of a schema.
_fix_up_sub_schema(s) ==
  LET a == IF Truthy(GetOr(s, "discriminator", Undef)) /\ IsLeaf(s["discriminator"])
           THEN Put(s, "discriminator", Map("propertyName" :> s["discriminator"]))
           ELSE s
      b == IF GetOr(a, "type", Undef) = Str("file")
           THEN Put(Put(a, "type", Str("string")), "format", Str("binary"))
           ELSE a
      c == Drop(b, "allowEmptyValue")
      d == IF GetOr(c, "type", Undef) = Str("null")
           THEN Put(Drop(c, "type"), "nullable", True)
           ELSE c
  IN IF "x-nullable" \in DOMAIN d
     THEN Put(Drop(d, "x-nullable"), "nullable", d["x-nullable"])
     ELSE d

\* _fix_up_schema / _walk_schema (converter.py 5-25, 65-67).
RECURSIVE _fix_up_schema(_)
_fix_up_schema(schema) ==
  IF ~IsMap(schema) THEN schema
  ELSE LET s == _fix_up_sub_schema(schema.v)
           each(x) == IF IsList(x) THEN List([i \in DOMAIN x.v |-> _fix_up_schema(x.v[i])])
                      ELSE IF IsMap(x) THEN Map([k \in DOMAIN x.v |-> _fix_up_schema(x.v[k])])
                      ELSE x
       IN Map([k \in DOMAIN s |->
                 IF k \in {"items", "not"} THEN _fix_up_schema(s[k])
                 ELSE IF k \in {"properties", "allOf", "anyOf", "oneOf"} THEN each(s[k])
                 ELSE s[k]])

\* _rewrite_ref (converter.py 69-77) on the "/"-separated pieces of a ref.
_rewrite_ref(ref) ==
  IF Len(ref) >= 3 /\ ref[1] = "#" /\ ref[2] \in {"definitions", "parameters", "responses"}
  THEN <<"#", "components", IF ref[2] = "definitions" THEN "schemas" ELSE ref[2]>>
         \o SubSeq(ref, 3, Len(ref))
  ELSE ref

\* _recurse(obj, self._fixup_refs) (converter.py 28-38, 79-82).
RECURSIVE _fixup_refs(_)
_fixup_refs(obj) ==
  IF IsMap(obj)
  THEN Map([k \in DOMAIN obj.v |->
              IF k = "$ref" /\ IsLeaf(obj.v[k]) THEN Leaf(_rewrite_ref(obj.v[k].v))
              ELSE _fixup_refs(obj.v[k])])
  ELSE IF IsList(obj) THEN List([i \in DOMAIN obj.v |-> _fixup_refs(obj.v[i])])
  ELSE obj

\* The keys of a dict as a list, in one fixed order.
RECURSIVE KeyList(_)
KeyList(S) ==
  IF S = {} THEN <<>>
  ELSE LET k == CHOOSE x \in S : TRUE IN <<k>> \o KeyList(S \ {k})

\* A dict restricted to some of its keys.
Restrict(f, S) == [k \in DOMAIN f \cap S |-> f[k]]
\* A string used as a dict key: the strings that serve as keys are one piece long.
KeyOf(x) == x.v[1]

\* One scheme of _convert_security_definitions (converter.py 84-119); scheme.pop
\* of a missing key raises.
ConvertSecurityScheme(scheme) ==
  LET s == scheme.v
      flow == GetOr(s, "flow", Undef)
      needed ==
        CASE flow = Str("implicit") -> {"authorizationUrl", "scopes"}
          [] flow = Str("password") -> {"tokenUrl", "scopes"}
          [] flow = Str("application") -> {"tokenUrl", "scopes"}
          [] flow = Str("accessCode") -> {"authorizationUrl", "tokenUrl", "scopes"}
          [] OTHER -> {}
      flowName ==
        CASE flow = Str("application") -> "clientCredentials"
          [] flow = Str("accessCode") -> "authorizationCode"
          [] OTHER -> KeyOf(flow)
  IN IF GetOr(s, "type", Undef) = Str("basic")
     THEN Map(Put(Put(s, "type", Str("http")), "scheme", Str("basic")))
     ELSE IF GetOr(s, "type", Undef) = Str("oauth2")
     THEN IF flow = Undef \/ ~(needed \subseteq DOMAIN s) THEN Raised
          ELSE Map(Put(Restrict(s, DOMAIN s \ (needed \cup {"flow"})), "flows",
                       IF needed = {} THEN Map(EmptyDict)
                       ELSE Map(flowName :> Map(Restrict(s, needed)))))
     ELSE scheme

_convert_security_definitions(secdefs) ==
  IF \E n \in DOMAIN secdefs.v : ConvertSecurityScheme(secdefs.v[n]) = Raised
  THEN Raised
  ELSE Map([n \in DOMAIN secdefs.v |-> ConvertSecurityScheme(secdefs.v[n])])

\* _convert_parameter (converter.py 192-208).
SchemaProperties ==
  {"type", "format", "items", "default", "maximum", "exclusiveMaximum", "minimum",
   "exclusiveMinimum", "maxLength", "minLength", "pattern", "maxItems", "minItems",
   "uniqueItems", "enum", "multipleOf", "collectionFormat"}
_convert_parameter(param) ==
  IF "schema" \notin DOMAIN param.v /\ "type" \in DOMAIN param.v
  THEN Map(Put(Restrict(param.v, DOMAIN param.v \ SchemaProperties), "schema",
               Map(Restrict(param.v, SchemaProperties))))
  ELSE param

\* The items of a list that satisfy / do not satisfy `p.get("in") in kinds`.
RECURSIVE ParamsIn(_, _)
ParamsIn(params, kinds) ==
  IF params = <<>> THEN <<>>
  ELSE IF GetOr(Head(params).v, "in", Undef) \in kinds
  THEN <<Head(params)>> \o ParamsIn(Tail(params), kinds)
  ELSE ParamsIn(Tail(params), kinds)
RECURSIVE ParamsNotIn(_, _)
ParamsNotIn(params, kinds) ==
  IF params = <<>> THEN <<>>
  ELSE IF GetOr(Head(params).v, "in", Undef) \in kinds
  THEN ParamsNotIn(Tail(params), kinds)
  ELSE <<_convert_parameter(Head(params))>> \o ParamsNotIn(Tail(params), kinds)

\* {content_type: {"schema": schema} for content_type in types}
ContentOf(types, schema) ==
  Map([ct \in {KeyOf(x) : x \in Range(types.v)} |-> Map("schema" :> schema)])

\* The schema of one formData parameter (converter.py 160-163).
FormProp(param) ==
  LET ps == Restrict(param.v, DOMAIN param.v \ {"name", "in", "required"})
  IN Map(IF GetOr(param.v, "type", Undef) = Str("file")
         THEN Put(Put(ps, "type", Str("string")), "format", Str("binary"))
         ELSE ps)
\* schema["properties"] after the loop over the formData parameters (158-164).
RECURSIVE FormProperties(_, _)
FormProperties(props, params) ==
  IF params = <<>> THEN props
  ELSE FormProperties(Put(props, KeyOf(Head(params).v["name"]), FormProp(Head(params))),
                      Tail(params))
\* The names appended to required_fields (165-166).
RECURSIVE FormRequired(_)
FormRequired(params) ==
  IF params = <<>> THEN <<>>
  ELSE (IF Truthy(GetOr(Head(params).v, "required", Undef))
        THEN <<Head(params).v["name"]>> ELSE <<>>) \o FormRequired(Tail(params))

\* d without the keys of S.
Without(d, S) == Restrict(d, DOMAIN d \ S)

\* One header of a response (converter.py 186-190).
ConvertHeader(h) ==
  IF "type" \in DOMAIN h.v
  THEN Map(Put(Without(h.v, {"type", "format"}), "schema", Map(Restrict(h.v, {"type", "format"}))))
  ELSE h
\* response["headers"] after the loop over the headers (185-190).
ConvertHeaders(r) ==
  PutIf("headers" \in DOMAIN r, r, "headers",
        Map([n \in DOMAIN GetOr(r, "headers", Map(EmptyDict)).v |->
               ConvertHeader(r["headers"].v[n])]))
\* One response of an operation (converter.py 179-190).
ConvertResponse(response, produces) ==
  Map(ConvertHeaders(
        PutIf("schema" \in DOMAIN response.v, Drop(response.v, "schema"), "content",
              ContentOf(produces, GetOr(response.v, "schema", Undef)))))

\* op["requestBody"] made of the body parameter b (converter.py 131-140).
BodyRequest(b, consumes) ==
  Map(PutIf(Truthy(GetOr(b, "required", Undef)),
            PutIf(Truthy(GetOr(b, "description", Undef)),
                  "content" :> ContentOf(consumes, GetOr(b, "schema", Map(EmptyDict))),
                  "description", GetOr(b, "description", Undef)),
            "required", GetOr(b, "required", Undef)))
WithBody(o, bodies, consumes) ==
  IF bodies # <<>> THEN Put(o, "requestBody", BodyRequest(Head(bodies).v, consumes)) ELSE o

\* content_type of the formData parameters (converter.py 146-148).
FormContentType(consumes) ==
  IF Str("multipart/form-data") \in Range(consumes.v) THEN "multipart/form-data"
  ELSE "application/x-www-form-urlencoded"
\* op["requestBody"]["content"][content_type], made where it is missing (150-153).
FormEntry(content, content_type) ==
  IF Has(content, content_type) THEN content.v[content_type]
  ELSE Map("schema" :> Map(("type" :> Str("object")) @@ ("properties" :> Map(EmptyDict))))
\* The loop over the formData parameters raises KeyError (155-164).
FormRaises(requestBody, content_type, form_data_params) ==
  \/ ~IsMap(Get(requestBody, <<"content">>))
  \/ ~IsMap(Get(FormEntry(Get(requestBody, <<"content">>), content_type),
                <<"schema", "properties">>))
  \/ \E i \in DOMAIN form_data_params : "name" \notin DOMAIN form_data_params[i].v
\* schema after the loop over the formData parameters (155-169).
FormSchema(schema, form_data_params, required_fields) ==
  Map(PutIf(required_fields # <<>>,
            Put(schema.v, "properties",
                Map(FormProperties(schema.v["properties"].v, form_data_params))),
            "required", List(required_fields)))
RequiredFields(schema, form_data_params) ==
  (IF Has(schema, "required") THEN schema.v["required"].v ELSE <<>>)
    \o FormRequired(form_data_params)
FormEntryWith(entry, form_data_params) ==
  Map(Put(entry.v, "schema",
          FormSchema(entry.v["schema"], form_data_params,
                     RequiredFields(entry.v["schema"], form_data_params))))
FormContent(content, content_type, form_data_params) ==
  Map(Put(content.v, content_type,
          FormEntryWith(FormEntry(content, content_type), form_data_params)))
FormRequest(requestBody, content_type, form_data_params) ==
  Map(Put(requestBody.v, "content",
          FormContent(requestBody.v["content"], content_type, form_data_params)))
WithForm(o, form_data_params, consumes) ==
  IF form_data_params # <<>>
  THEN Put(o, "requestBody",
           FormRequest(GetOr(o, "requestBody", Map("content" :> Map(EmptyDict))),
                       FormContentType(consumes), form_data_params))
  ELSE o
\* op["parameters"] without the body and formData parameters (171-175).
WithParameters(o, params) ==
  PutIf("parameters" \in DOMAIN o, o, "parameters",
        List(ParamsNotIn(params, {Str("body"), Str("formData")})))
WithResponses(o, produces) ==
  PutIf("responses" \in DOMAIN o, o, "responses",
        Map([c \in DOMAIN GetOr(o, "responses", Map(EmptyDict)).v |->
               ConvertResponse(o["responses"].v[c], produces)]))

\* _convert_operation on the dict o of an operation with its parameters list.
ConvertOperation(o, params, consumes, produces) ==
  IF /\ ParamsIn(params, {Str("formData")}) # <<>>
     /\ FormRaises(GetOr(WithBody(o, ParamsIn(params, {Str("body")}), consumes),
                         "requestBody", Map("content" :> Map(EmptyDict))),
                   FormContentType(consumes), ParamsIn(params, {Str("formData")}))
  THEN Raised
  ELSE Map(WithResponses(
             WithParameters(
               WithForm(WithBody(o, ParamsIn(params, {Str("body")}), consumes),
                        ParamsIn(params, {Str("formData")}), consumes),
               params),
             produces))

\* _convert_operation (converter.py 121-190); openapi is the document being
\* converted.  Raised where the code raises KeyError on the request body.
_convert_operation(op, openapi) ==
  ConvertOperation(op.v,
                   GetOr(op.v, "parameters", List(<<>>)).v,
                   GetOr(op.v, "consumes", GetOr(openapi, "consumes", List(<<>>))),
                   GetOr(op.v, "produces", GetOr(openapi, "produces", List(<<>>))))

\* The server URL made of scheme, host and basePath (converter.py 219-226).
ServerUrl(swagger) ==
  (IF "schemes" \in DOMAIN swagger /\ Truthy(swagger["schemes"])
   THEN swagger["schemes"].v[1].v ELSE <<"https">>)
    \o <<"://">> \o swagger["host"].v
    \o (IF "basePath" \in DOMAIN swagger THEN swagger["basePath"].v ELSE <<>>)
\* converter.py 212-238: openapi, servers, info.
ConvertServers(swagger) ==
  SetDefault(
    Without(PutIf("host" \in DOMAIN swagger,
                  Put(Drop(swagger, "swagger"), "openapi", Str("3.0.0")),
                  "servers", List(<<Map("url" :> Leaf(ServerUrl(swagger)))>>)),
            {"host", "basePath", "schemes"}),
    "info", Map(("title" :> Str("Converted API")) @@ ("version" :> Str("1.0.0"))))

\* The top-level key that is moved to each component type (converter.py 244-254).
MovedFrom(component_type) ==
  CASE component_type = "schemas" -> "definitions"
    [] component_type = "securitySchemes" -> "securityDefinitions"
    [] OTHER -> component_type
\* openapi["components"] (converter.py 240-254, 272-275).
FixUpSchemas(components) ==
  PutIf("schemas" \in DOMAIN components, components, "schemas",
        Map([n \in DOMAIN GetOr(components, "schemas", Map(EmptyDict)).v |->
               _fix_up_schema(components["schemas"].v[n])]))
ConvertComponents(openapi) ==
  Put(Without(openapi, {"parameters", "responses", "definitions", "securityDefinitions"}),
      "components",
      Map(FixUpSchemas(
            Update(GetOr(openapi, "components", Map(EmptyDict)).v,
                   [t \in {c \in {"parameters", "responses", "schemas", "securitySchemes"} :
                             MovedFrom(c) \in DOMAIN openapi} |->
                      IF t = "securitySchemes"
                      THEN _convert_security_definitions(openapi[MovedFrom(t)])
                      ELSE openapi[MovedFrom(t)]]))))
\* The default security requirement (converter.py 260-270).
DefaultRequirements(names) == List([i \in DOMAIN names |-> Map(names[i] :> List(<<>>))])
ConvertSecurity(openapi, swagger) ==
  PutIf("security" \notin DOMAIN swagger
          /\ Truthy(GetOr(openapi["components"].v, "securitySchemes", Map(EmptyDict))),
        openapi, "security",
        DefaultRequirements(KeyList(DOMAIN GetOr(openapi["components"].v, "securitySchemes",
                                                  Map(EmptyDict)).v)))
\* The operations under the HTTP method keys (converter.py 277-281).
ConvertMethod(mth, op, openapi) ==
  IF LowerPiece(mth) \in HttpMethods THEN _convert_operation(op, openapi) ELSE op
ConvertPaths(openapi) ==
  PutIf("paths" \in DOMAIN openapi, openapi, "paths",
        [p \in DOMAIN GetOr(openapi, "paths", <<>>) |->
           Map([mth \in DOMAIN openapi["paths"][p].v |->
                  ConvertMethod(mth, openapi["paths"][p].v[mth], openapi)])])
\* _recurse(openapi, self._fixup_refs) (converter.py 283-284).
FixupRefs(openapi) ==
  [k \in DOMAIN openapi |->
     IF k = "paths" THEN [p \in DOMAIN openapi[k] |-> _fixup_refs(openapi[k][p])]
     ELSE _fixup_refs(openapi[k])]
\* convert raises: a security scheme or an operation cannot be converted.
ConvertRaises(swagger) ==
  \/ /\ "securityDefinitions" \in DOMAIN swagger
     /\ _convert_security_definitions(swagger["securityDefinitions"]) = Raised
  \/ \E p \in DOMAIN GetOr(swagger, "paths", <<>>) : \E mth \in DOMAIN swagger["paths"][p].v :
        ConvertMethod(mth, swagger["paths"][p].v[mth], swagger) = Raised

\* Swagger2OpenAPIConverter.convert (converter.py 210-289): the converted
\* document, or Raised.
convert(swagger) ==
  IF ConvertRaises(swagger) THEN Raised
  ELSE Without(FixupRefs(ConvertPaths(ConvertSecurity(ConvertComponents(ConvertServers(swagger)),
                                                      swagger))),
               {"consumes", "produces"})

-----------------------------------------------------------------------------
(* SpecManager: spec_manager.py 62-563.  The cache directory holds one raw *)
(* file per spec key and one merged file per namespace; None stands for a  *)
(* file that does not exist and for the Python value None.  yaml.dump      *)
(* followed by yaml.safe_load gives back an equal document for the dicts,  *)
(* lists and strings that documents are made of, so a cache entry is the   *)
(* document that was saved.                                                *)

None == [t |-> "none", v |-> <<>>]

\* urlparse(server_url).path for a URL given as its pieces: scheme, "://" and
\* host come first in an absolute URL, and a relative URL is all path.
UrlPath(url) ==
  IF Len(url) >= 2 /\ url[2] = "://" THEN SubSeq(url, 4, Len(url)) ELSE url

\* base_path of a fetched document (spec_manager.py 91-101).
BasePath(spec) ==
  IF "servers" \in DOMAIN spec /\ Truthy(spec["servers"])
  THEN LET server_url == TextOf(GetOr(spec["servers"].v[1].v, "url", Leaf(<<>>)))
           path == UrlPath(server_url)
       IN IF path # <<>> /\ path[Len(path)] = "/" THEN SubSeq(path, 1, Len(path) - 1)
          ELSE path
  ELSE <<>>

\* The slip of leaving the base path out of the path keys.
PrependBasePathSkipped(spec) == spec

\* The document with base_path in front of each path (spec_manager.py 103-108).
PrependBasePath(spec) ==
  LET base_path == BasePath(spec)
  IN IF base_path # <<>> /\ "paths" \in DOMAIN spec
     THEN Put(spec, "paths",
              [q \in {base_path \o p : p \in DOMAIN spec["paths"]} |->
                 spec["paths"][SubSeq(q, Len(base_path) + 1, Len(q))]])
     ELSE spec

\* deep_merge(base_spec.setdefault(key, {}), spec[key]) (spec_manager.py 115-124).
FoldKey(base_spec, spec, key) ==
  IF key \notin DOMAIN spec THEN base_spec
  ELSE IF base_spec = Raised \/ ~IsMap(spec[key])
            \/ deep_merge(GetOr(base_spec, key, Map(EmptyDict)), spec[key].v) = Raised
  THEN Raised
  ELSE Put(base_spec, key, deep_merge(GetOr(base_spec, key, Map(EmptyDict)), spec[key].v))

\* One more source folded into base_spec (spec_manager.py 110-124): the new
\* base_spec, or Raised when deep_merge raises.
FoldSource(base_spec, spec) ==
  IF base_spec = None THEN spec
  ELSE FoldKey(FoldKey(Put(base_spec, "paths",
                           Update(GetOr(base_spec, "paths", <<>>), GetOr(spec, "paths", <<>>))),
                       spec, "components"),
               spec, "$defs")

MetalTokenScheme ==
  Map(("type" :> Str("apiKey")) @@ ("in" :> Str("header")) @@ ("name" :> Str("X-Auth-Token")))

\* The name of the configured scheme and the scheme itself (spec_manager.py 136-163).
SchemeName(auth_type) ==
  IF auth_type = "client_credentials" THEN "ClientCredentials" ELSE "MetalToken"
ConfiguredScheme(auth_type) ==
  IF auth_type = "client_credentials" THEN ClientCredentialsScheme ELSE MetalTokenScheme
HasScheme(auth_type) == auth_type \in {"client_credentials", "metal_token"}
\* sec_schemes with the configured scheme (spec_manager.py 135-163).
WithConfiguredScheme(sec_schemes, auth_type) ==
  IF HasScheme(auth_type)
  THEN SetDefault(sec_schemes, SchemeName(auth_type), ConfiguredScheme(auth_type))
  ELSE sec_schemes
EnsureConfiguredScheme(merged_spec, auth_type) ==
  Put(merged_spec, "components",
      Map(Put(merged_spec["components"].v, "securitySchemes",
              Map(WithConfiguredScheme(
                    GetOr(merged_spec["components"].v, "securitySchemes", Map(EmptyDict)).v,
                    auth_type)))))
\* The default top-level security requirement (spec_manager.py 173-178).
EnsureDefaultSecurity(merged_spec, auth_type) ==
  PutIf(~Truthy(GetOr(merged_spec, "security", Undef)) /\ HasScheme(auth_type),
        merged_spec, "security", List(<<Map(SchemeName(auth_type) :> List(<<>>))>>))
\* comps.setdefault / sec_schemes.setdefault raise on what is no dict.
NormalizeRaises(merged_spec) ==
  \/ ~IsMap(merged_spec["components"])
  \/ ~IsMap(GetOr(merged_spec["components"].v, "securitySchemes", Map(EmptyDict)))
Normalized(merged_spec, auth_type) ==
  IF NormalizeRaises(merged_spec) THEN Raised
  ELSE EnsureDefaultSecurity(
         _promote_auth_header_to_security(EnsureConfiguredScheme(merged_spec, auth_type)),
         auth_type)

\* The rest of _process_api_group once base_spec is complete (spec_manager.py
\* 129-178, no overlay configured): the document that is saved, or Raised.
NormalizeGroup(base_spec, auth_type) ==
  Normalized(SetDefault(base_spec, "components", Map(EmptyDict)), auth_type)

\* The configuration (config.py APIConfig): the namespaces in the order of
\* config.apis, the number of sources of each, no overlay, no include / exclude
\* pattern.  fabric is a namespace that the configuration disables.
ApiNames == <<"widgets", "metal", "fabric">>
Config ==
  ("widgets" :> [name |-> "widgets", specs |-> 1, auth_type |-> "client_credentials",
                 enabled |-> TRUE, include |-> <<>>, exclude |-> <<>>]) @@
  ("metal" :> [name |-> "metal", specs |-> 2, auth_type |-> "metal_token",
               enabled |-> TRUE, include |-> <<>>, exclude |-> <<>>]) @@
  ("fabric" :> [name |-> "fabric", specs |-> 1, auth_type |-> "client_credentials",
                enabled |-> FALSE, include |-> <<>>, exclude |-> <<>>])
\* The spec keys f"{api_name}_{i}" as pairs <<api_name, i>>, i counted from 1.
SpecKeys == UNION {{<<n, i>> : i \in 1..Config[n].specs} : n \in Range(ApiNames)}

\* re.search(pattern, operation_id, re.IGNORECASE) for a pattern of plain pieces.
Search(pattern, id) ==
  LET p == Lower(pattern)
      t == Lower(id)
  IN \E i \in 0..(Len(t) - Len(p)) : SubSeq(t, i + 1, i + Len(p)) = p

\* The slip of matching the patterns against the prefixed operationId, as the
\* description of APIConfig.include has it ("after prefix").
_filter_paths_by_prefixed_id(api_config, paths) ==
  IF api_config.include = <<>> /\ api_config.exclude = <<>> THEN paths
  ELSE LET matches(patterns, op) ==
             \E i \in DOMAIN patterns :
                Search(patterns[i], <<api_config.name, "_">> \o TextOf(op.v["operationId"]))
           keep(op) ==
             \/ ~IsMap(op)
             \/ "operationId" \notin DOMAIN op.v
             \/ /\ api_config.include = <<>> \/ matches(api_config.include, op)
                /\ ~matches(api_config.exclude, op)
           item(pi) == Restrict(pi.v, {mth \in DOMAIN pi.v : keep(pi.v[mth])})
           kept == {p \in DOMAIN paths : IsMap(paths[p]) /\ DOMAIN item(paths[p]) # {}}
       IN [p \in kept |-> Map(item(paths[p]))]

\* SpecManager._filter_paths_by_operation_id (spec_manager.py 503-554).
_filter_paths_by_operation_id(api_config, paths) ==
  IF api_config.include = <<>> /\ api_config.exclude = <<>> THEN paths
  ELSE LET matches(patterns, op) ==
             \E i \in DOMAIN patterns : Search(patterns[i], TextOf(op.v["operationId"]))
           keep(op) ==
             \/ ~IsMap(op)
             \/ "operationId" \notin DOMAIN op.v
             \/ /\ api_config.include = <<>> \/ matches(api_config.include, op)
                /\ ~matches(api_config.exclude, op)
           item(pi) == Restrict(pi.v, {mth \in DOMAIN pi.v : keep(pi.v[mth])})
           kept == {p \in DOMAIN paths : IsMap(paths[p]) /\ DOMAIN item(paths[p]) # {}}
       IN [p \in kept |-> Map(item(paths[p]))]

\* The slip of prefixing what is already prefixed.
PrefixOperationIdsTwice(api_name, paths) ==
  [p \in DOMAIN paths |->
     Map([mth \in DOMAIN paths[p].v |->
            LET op == paths[p].v[mth]
            IN IF IsMap(op) /\ "operationId" \in DOMAIN op.v
               THEN Map(Put(op.v, "operationId",
                            Leaf(<<api_name, "_", api_name, "_">> \o TextOf(op.v["operationId"]))))
               ELSE op])]

\* operation["operationId"] = f"{api_name}_{operation['operationId']}"
\* (spec_manager.py 401-406).
PrefixOperationIds(api_name, paths) ==
  [p \in DOMAIN paths |->
     Map([mth \in DOMAIN paths[p].v |->
            LET op == paths[p].v[mth]
            IN IF IsMap(op) /\ "operationId" \in DOMAIN op.v
               THEN Map(Put(op.v, "operationId",
                            Leaf(<<api_name, "_">> \o TextOf(op.v["operationId"]))))
               ELSE op])]

\* `for method, operation in path_item.items()` raises on a path item that is no dict.
PrefixRaises(paths) == \E p \in DOMAIN paths : ~IsMap(paths[p])

(* The filter and the prefixing of get_merged_spec (spec_manager.py 393-406) *)
(* on the paths of one namespace: arg holds the api_config and the paths,   *)
(* res the paths after each of the two steps.                               *)

MaxPaths == 2
PathKeys == << <<"/", "widgets">>, <<"/", "widgets", "/", "{id}">>, <<"/", "status">> >>
Operation(id) == Map(("operationId" :> Leaf(id)) @@ ("summary" :> Str("s")))
\* Path items: two operations, one operation with path-level parameters, one
\* operation, an operation without operationId, and a value that is no dict.
ItemPool ==
  { Map(("get" :> Operation(<<"list", "Widgets">>)) @@
        ("post" :> Operation(<<"create", "Widget">>))),
    Map(("get" :> Operation(<<"list", "Widgets">>)) @@
        ("parameters" :> List(<<HeaderParam("X-Request-Id")>>))),
    Map("delete" :> Operation(<<"delete", "Widget">>)),
    Map("get" :> Map("summary" :> Str("s"))),
    Str("s") }
PathsPool ==
  UNION {[ks -> ItemPool] : ks \in SUBSET {PathKeys[i] : i \in 1..MaxPaths}}
\* include / exclude lists; <<"widgets", "_">> matches the prefixed form only.
IncludePool == { <<>>, << <<"LIST">> >>, << <<"widgets", "_">> >>, << <<"create">>, <<"widget">> >> }
ExcludePool == { <<>>, << <<"Widgets">> >>, << <<"widgets", "_", "list">> >> }
FilterConfigs ==
  {[name |-> "widgets", specs |-> 1, auth_type |-> "client_credentials", enabled |-> TRUE,
    include |-> inc, exclude |-> exc] : inc \in IncludePool, exc \in ExcludePool}

FilterInit ==
  /\ NoManager
  /\ arg \in [api_config : FilterConfigs, paths : PathsPool]
  /\ res = Undef
  /\ pc = "filter"

\* filtered_paths = self._filter_paths_by_operation_id(api_name, spec["paths"])
FilterPaths ==
  /\ pc = "filter"
  /\ res' = _filter_paths_by_operation_id(arg.api_config, arg.paths)
  /\ pc' = "prefix"
  /\ UNCHANGED <<arg, mgrVars>>

\* The loop that prefixes the operationIds of filtered_paths.
PrefixIds ==
  /\ pc = "prefix"
  /\ res' = IF PrefixRaises(res) THEN Raised
            ELSE PrefixOperationIds(arg.api_config.name, res)
  /\ pc' = "done"
  /\ UNCHANGED <<arg, mgrVars>>

FilterNext == FilterPaths \/ PrefixIds

SpecFilter == FilterInit /\ [][FilterNext]_vars

\* The operations of a paths dict that have an operationId, as <<path, key>> pairs.
IdentifiedIn(paths) ==
  UNION {{<<p, mth>> : mth \in {k \in DOMAIN paths[p].v : Has(paths[p].v[k], "operationId")}} :
           p \in {q \in DOMAIN paths : IsMap(paths[q])}}
IdIn(paths, pm) == paths[pm[1]].v[pm[2]].v["operationId"].v
MatchesSome(patterns, id) == \E i \in DOMAIN patterns : Search(patterns[i], id)
\* The include list is empty or the id matches one of its patterns, and the id
\* matches no pattern of the exclude list.
Passes(api_config, id) ==
  /\ api_config.include = <<>> \/ MatchesSome(api_config.include, id)
  /\ ~MatchesSome(api_config.exclude, id)

\* C15: the filter keeps an operation if and only if its operationId passes the
\* include and exclude lists, and a path whose operations are all dropped is
\* absent from the result.
C15_FilterKeepsExactly ==
  pc = "prefix" =>
    /\ \A pm \in IdentifiedIn(arg.paths) :
          pm \in IdentifiedIn(res) <=> Passes(arg.api_config, IdIn(arg.paths, pm))
    /\ \A p \in DOMAIN arg.paths :
          (/\ \E pm \in IdentifiedIn(arg.paths) : pm[1] = p
           /\ \A pm \in IdentifiedIn(arg.paths) :
                 pm[1] = p => ~Passes(arg.api_config, IdIn(arg.paths, pm)))
            => p \notin DOMAIN res

RECURSIVE _update_references(_)
_update_references(obj) ==
  IF IsMap(obj)
  THEN Map([k \in DOMAIN obj.v |->
              IF k = "$ref" /\ IsLeaf(obj.v[k]) /\ StartsWithSchemas(obj.v[k].v)
              THEN DefsRef(LastSegment(obj.v[k].v))
              ELSE _update_references(obj.v[k])])
  ELSE IF IsList(obj) THEN List([i \in DOMAIN obj.v |-> _update_references(obj.v[i])])
  ELSE obj

\* deep_merge(d, x) for a tree x: x.items() raises on what is no dict.
MergeTree(d, x) == IF d = Raised \/ ~IsMap(x) THEN Raised ELSE deep_merge(d, x.v)

\* merged_spec of get_merged_spec before the loop (spec_manager.py 360-372).
Skeleton ==
  ("openapi" :> Str("3.1.0")) @@
  ("info" :> Map(("title" :> Str("Equinix MCP Combined API")) @@
                 ("version" :> Str("1.0.0")) @@
                 ("description" :> Str("A merged API of all enabled Equinix services.")))) @@
  ("servers" :> List(<<Map("url" :> Leaf(<<"https", "://", "api.equinix.com">>))>>)) @@
  ("paths" :> <<>>) @@
  ("components" :> Map(EmptyDict)) @@
  ("security" :> List(<<>>)) @@
  ("$defs" :> Map(EmptyDict))

\* merged_spec["paths"] after the paths of one namespace (spec_manager.py 393-408).
MergePaths(m, api_name, spec) ==
  PutIf("paths" \in DOMAIN spec, m, "paths",
        Update(m["paths"],
               PrefixOperationIds(api_name,
                 _filter_paths_by_operation_id(Config[api_name], GetOr(spec, "paths", <<>>)))))
\* $defs after the schemas and the $defs of one namespace (410-416, 428-429).
MergeDefs(defs, comps, spec) ==
  IF "$defs" \in DOMAIN spec
  THEN MergeTree(IF Has(comps, "schemas") THEN MergeTree(defs, comps.v["schemas"]) ELSE defs,
                 spec["$defs"])
  ELSE IF Has(comps, "schemas") THEN MergeTree(defs, comps.v["schemas"]) ELSE defs
\* One of the other component types (418-426).
MergeComponent(components, comps, type) ==
  MergeTree(GetOr(components, type, Map(EmptyDict)), comps.v[type])
MergeComponents(m, comps, spec) ==
  IF \/ ~IsMap(comps)
     \/ MergeDefs(m["$defs"], comps, spec) = Raised
     \/ \E type \in DOMAIN comps.v \ {"schemas"} :
           MergeComponent(m["components"].v, comps, type) = Raised
  THEN Raised
  ELSE [m EXCEPT !["$defs"] = MergeDefs(m["$defs"], comps, spec),
                 !["components"] =
                    Map(Update(m["components"].v,
                               [type \in DOMAIN comps.v \ {"schemas"} |->
                                  MergeComponent(m["components"].v, comps, type)]))]

\* One pass of the loop over all_specs (spec_manager.py 393-429): merged_spec
\* after it, or Raised.
MergeNamespace(m, api_name, spec) ==
  MergeComponents(MergePaths(m, api_name, spec),
                  GetOr(spec, "components", Map(EmptyDict)), spec)

\* get_all_merged_specs keeps the namespaces whose merged file loads to a
\* non-empty document (spec_manager.py 494-501).
Loaded(spec) == spec # None /\ DOMAIN spec # {}

RECURSIVE MergeAll(_, _, _)
MergeAll(m, names, cache) ==
  IF names = <<>> \/ m = Raised THEN m
  ELSE MergeAll(IF Loaded(cache[Head(names)])
                THEN MergeNamespace(m, Head(names), cache[Head(names)]) ELSE m,
                Tail(names), cache)

\* all_security_schemes (spec_manager.py 390-391).
RECURSIVE SecurityOf(_, _)
SecurityOf(names, cache) ==
  IF names = <<>> THEN <<>>
  ELSE (IF Loaded(cache[Head(names)]) /\ "security" \in DOMAIN cache[Head(names)]
        THEN cache[Head(names)]["security"].v ELSE <<>>) \o SecurityOf(Tail(names), cache)

\* tuple(v) of a requirement's value: the items of a list, the keys of a dict,
\* the characters of a string.
TupleOf(v) == IF IsMap(v) THEN KeyList(DOMAIN v.v) ELSE v.v
\* scheme_tuple (spec_manager.py 437): sorted (key, tuple(value)) pairs, which
\* amounts to the function from each key to the tuple of its value.
SchemeTuple(scheme) == [k \in DOMAIN scheme.v |-> TupleOf(scheme.v[k])]
\* scheme.items() raises on what is no dict, tuple(v) on a value that cannot be
\* iterated, and the set lookup on a tuple that holds a dict or a list.
TupleRaises(scheme) ==
  \/ ~IsMap(scheme)
  \/ \E k \in DOMAIN scheme.v :
        \/ ~(IsMap(scheme.v[k]) \/ IsList(scheme.v[k]) \/ IsLeaf(scheme.v[k]))
        \/ IsList(scheme.v[k]) /\ \E i \in DOMAIN scheme.v[k].v : ~IsLeaf(scheme.v[k].v[i])
UniqueRaises(schemes) == \E i \in DOMAIN schemes : TupleRaises(schemes[i])

\* The slip of leaving the `if scheme_tuple not in seen` test out.
UniqueKeepAll(schemes) == schemes

\* unique_schemes (spec_manager.py 433-440): the first scheme of each scheme_tuple.
RECURSIVE Unique(_)
Unique(schemes) ==
  IF schemes = <<>> THEN <<>>
  ELSE LET front == Unique(SubSeq(schemes, 1, Len(schemes) - 1))
           last == schemes[Len(schemes)]
       IN IF \E i \in DOMAIN front : SchemeTuple(front[i]) = SchemeTuple(last)
          THEN front ELSE Append(front, last)

\* _update_references on a document.
UpdateReferences(doc) ==
  [k \in DOMAIN doc |->
     IF k = "paths" THEN [p \in DOMAIN doc[k] |-> _update_references(doc[k][p])]
     ELSE _update_references(doc[k])]

\* "Clean up empty keys before returning" (spec_manager.py 446-450).
CleanUp(doc) ==
  Restrict(doc, DOMAIN doc \ {k \in {"components", "$defs"} :
                                k \in DOMAIN doc /\ ~Truthy(doc[k])})

\* merged_spec["security"] (spec_manager.py 431-441).
MergeSecurity(m, all_security_schemes) ==
  PutIf(all_security_schemes # <<>>, m, "security", List(Unique(all_security_schemes)))
\* The end of get_merged_spec (431-452).
Assembled(m, cache) ==
  IF m = Raised \/ UniqueRaises(SecurityOf(ApiNames, cache)) THEN Raised
  ELSE CleanUp(UpdateReferences(MergeSecurity(m, SecurityOf(ApiNames, cache))))

(* The security requirements of get_merged_spec (spec_manager.py 389-391,   *)
(* 431-441) on their own: arg holds the merged spec of each namespace, res  *)
(* merged_spec after the requirements were merged.                          *)

MaxNamespaces == 3
Requirement(name, scopes) == Map(name :> scopes)
\* The `security` lists of the per-namespace specs: none, the default of an
\* auth_type, scopes, two alternatives, the same names with a dict or a string
\* for the scopes, and a requirement whose value is missing (None).
SecurityLists ==
  { <<>>,
    <<Requirement("ClientCredentials", List(<<>>))>>,
    <<Requirement("MetalToken", List(<<>>)), Requirement("ClientCredentials", List(<<>>))>>,
    <<Requirement("ClientCredentials", List(<<Str("read")>>)),
      Requirement("ClientCredentials", Map(EmptyDict))>>,
    <<Map(("ClientCredentials" :> List(<<>>)) @@ ("MetalToken" :> List(<<>>))),
      Requirement("MetalToken", Leaf(<<>>))>>,
    <<Requirement("MetalToken", None)>> }
NamespaceSpec(security) ==
  ("openapi" :> Str("3.0.0")) @@ ("security" :> List(security))
NamespaceSpecs ==
  UNION {[1..k -> {NamespaceSpec(sec) : sec \in SecurityLists}] : k \in 0..MaxNamespaces}
\* The namespaces in the order of all_specs.
Order(cache) == [i \in 1..Len(cache) |-> i]

SecurityInit ==
  /\ NoManager
  /\ arg \in NamespaceSpecs
  /\ res = Undef
  /\ pc = "collect"

\* The loop that collects all_security_schemes, then unique_schemes.
CollectSecurity ==
  /\ pc = "collect"
  /\ res' = IF UniqueRaises(SecurityOf(Order(arg), arg)) THEN Raised
            ELSE MergeSecurity(Skeleton, SecurityOf(Order(arg), arg))
  /\ pc' = "done"
  /\ UNCHANGED <<arg, mgrVars>>

SecurityNext == CollectSecurity

SpecSecurity == SecurityInit /\ [][SecurityNext]_vars

\* The namespaces whose spec declares the requirement.
Declaring(cache, requirement) ==
  {i \in DOMAIN cache : requirement \in Range(cache[i]["security"].v)}

\* C17: the `security` list of the merged spec holds no two equal requirements.
C17_NoDuplicateRequirements ==
  (pc = "done" /\ res # Raised) =>
    \A i \in DOMAIN res["security"].v : \A j \in DOMAIN res["security"].v :
       i # j => res["security"].v[i] # res["security"].v[j]

\* C17 witness: every namespace of the bound declares the same requirement,
\* one of them with another one, and the merged list holds each once.
C17_Witness ==
  /\ pc = "done"
  /\ res # Raised
  /\ Len(arg) = MaxNamespaces
  /\ Declaring(arg, Requirement("ClientCredentials", List(<<>>))) = DOMAIN arg
  /\ Declaring(arg, Requirement("MetalToken", List(<<>>))) # {}
  /\ Len(res["security"].v) = 2

\* SpecManager.get_merged_spec (spec_manager.py 355-452) on the merged files
\* of the cache directory: the document returned, or Raised.
get_merged_spec(cache) ==
  IF \A n \in Range(ApiNames) : ~Loaded(cache[n]) THEN CleanUp(Skeleton)
  ELSE Assembled(MergeAll(Skeleton, ApiNames, cache), cache)

\* What http_client.get and yaml.load come to for one request.
Ok(doc) == [kind |-> "ok", doc |-> doc]
HttpStatusError == [kind |-> "http_status", doc |-> None]
NetworkError == [kind |-> "network", doc |-> None]
YamlError == [kind |-> "yaml", doc |-> None]

\* The parsed response, converted where it is a Swagger 2.0 document
\* (spec_manager.py 199-203).
Parsed(doc) == IF GetOr(doc, "swagger", Undef) = Str("2.0") THEN convert(doc) ELSE doc
\* The slip of saving before the conversion is known to have succeeded.
CachedAlways(spec_key, spec, cache) ==
  [cache |-> [cache EXCEPT ![spec_key] = spec], ret |-> spec]

\* save_cached_spec and return (207-209), or the handler of the exception that
\* convert raised (215-217).
Cached(spec_key, spec, cache) ==
  IF spec = Raised THEN [cache |-> cache, ret |-> None]
  ELSE [cache |-> [cache EXCEPT ![spec_key] = spec], ret |-> spec]

\* SpecManager._fetch_and_cache_spec (spec_manager.py 182-220): the raw
\* files afterwards and the value returned.
_fetch_and_cache_spec(spec_key, outcome, cache) ==
  IF outcome.kind = "ok" THEN Cached(spec_key, Parsed(outcome.doc), cache)
  ELSE IF outcome.kind = "http_status" THEN [cache |-> cache, ret |-> cache[spec_key]]
  ELSE [cache |-> cache, ret |-> None]

-----------------------------------------------------------------------------
(* The documents that the sources serve.                                   *)

ObjectSchema(props) == Map(("type" :> Str("object")) @@ ("properties" :> Map(props)))
Ref(pointer) == Map("$ref" :> pointer)
JsonResponse(schema) ==
  Map("200" :> Map("content" :> Map("application/json" :> Map("schema" :> schema))))

\* The Swagger 2.0 document of the widgets scenario.
WidgetsSwagger ==
  ("swagger" :> Str("2.0")) @@
  ("host" :> Str("api.example.com")) @@
  ("basePath" :> Leaf(<<"/", "v1">>)) @@
  ("schemes" :> List(<<Str("https")>>)) @@
  ("paths" :> (<<"/", "widgets">> :>
     Map("get" :> Map(("operationId" :> Str("listWidgets")) @@
                      ("responses" :> Map("200" :> Map("schema" :>
                          Map("$ref" :> Leaf(<<"#", "definitions", "Widget">>))))))))) @@
  ("definitions" :> Map("Widget" :> ObjectSchema("id" :> Map("type" :> Str("string")))))

\* An OpenAPI 3.0 document without servers; one of its refs points below a schema.
WidgetsOpenApi ==
  ("openapi" :> Str("3.0.3")) @@
  ("paths" :> (<<"/", "widgets", "/", "{id}">> :>
     Map("get" :> Map(("operationId" :> Str("getWidget")) @@
                      ("responses" :> JsonResponse(Ref(SchemaRef("Widget")))))))) @@
  ("components" :> Map("schemas" :> Map("Widget" :>
     ObjectSchema(("id" :> Map("type" :> Str("string"))) @@
                  ("owner" :> Map("$ref" :>
                     Leaf(<<"#", "components", "schemas", "Widget", "properties", "id">>)))))))

MetalDevices ==
  ("openapi" :> Str("3.0.0")) @@
  ("servers" :> List(<<Map("url" :>
     Leaf(<<"https", "://", "api.equinix.com", "/", "metal", "/", "v1">>))>>)) @@
  ("paths" :> (<<"/", "devices">> :>
     Map("get" :> Map(("operationId" :> Str("findById")) @@
                      ("parameters" :> List(<<HeaderParam("Authorization")>>)) @@
                      ("responses" :> JsonResponse(Ref(SchemaRef("Device")))))))) @@
  ("components" :> Map("schemas" :> Map(
     ("Device" :> ObjectSchema("href" :> Ref(SchemaRef("Href")))) @@
     ("Href" :> Map("type" :> Str("string"))))))

\* Its server URL ends in a slash, and it uses an operationId of MetalDevices.
MetalProjects ==
  ("openapi" :> Str("3.0.0")) @@
  ("servers" :> List(<<Map("url" :>
     Leaf(<<"https", "://", "api.equinix.com", "/", "metal", "/", "v1", "/">>))>>)) @@
  ("paths" :> (<<"/", "projects">> :>
     Map("get" :> Map(("operationId" :> Str("findById")) @@
                      ("responses" :> JsonResponse(Ref(SchemaRef("Project")))))))) @@
  ("components" :> Map("schemas" :> Map(
     ("Project" :> ObjectSchema("href" :> Ref(SchemaRef("Href")))) @@
     ("Href" :> Map(("type" :> Str("string")) @@ ("format" :> Str("uri")))))))

\* An OpenAPI 3.1 document with $defs, a relative server URL, a declared
\* security requirement and a second method on a path of MetalDevices.
MetalPorts ==
  ("openapi" :> Str("3.1.0")) @@
  ("servers" :> List(<<Map("url" :> Leaf(<<"/", "metal", "/", "v1">>))>>)) @@
  ("paths" :> (<<"/", "devices">> :>
     Map("post" :> Map(("operationId" :> Str("createDevice")) @@
                       ("responses" :> JsonResponse(Ref(DefsRef("Port")))))))) @@
  ("security" :> List(<<Map("MetalToken" :> List(<<>>))>>)) @@
  ("$defs" :> Map("Port" :> Map("type" :> Str("object"))))

\* A Swagger 2.0 document whose oauth2 security definition has no `flow`:
\* scheme.pop("flow") raises KeyError (converter.py 91).
WidgetsSwaggerNoFlow ==
  ("swagger" :> Str("2.0")) @@
  ("host" :> Str("api.example.com")) @@
  ("paths" :> (<<"/", "widgets">> :> Map("get" :> Map("operationId" :> Str("listWidgets"))))) @@
  ("securityDefinitions" :> Map("oauth" :> Map("type" :> Str("oauth2"))))

\* A document whose `components:` key has no value, which YAML loads as None.
MetalNullComponents ==
  ("openapi" :> Str("3.0.0")) @@
  ("paths" :> (<<"/", "plans">> :> Map("get" :> Map("operationId" :> Str("findPlans"))))) @@
  ("components" :> None)

\* The document that the source of fabric served while fabric was enabled.
FabricConnections ==
  ("openapi" :> Str("3.0.0")) @@
  ("servers" :> List(<<Map("url" :>
     Leaf(<<"https", "://", "api.equinix.com", "/", "fabric", "/", "v4">>))>>)) @@
  ("paths" :> (<<"/", "connections">> :>
     Map("get" :> Map(("operationId" :> Str("searchConnections")) @@
                      ("responses" :> JsonResponse(Ref(SchemaRef("Connection")))))))) @@
  ("components" :> Map("schemas" :> Map("Connection" :> Map("type" :> Str("object")))))

\* What each source can serve.
Served(spec_key) ==
  CASE spec_key = <<"widgets", 1>> -> {WidgetsSwagger, WidgetsOpenApi, WidgetsSwaggerNoFlow}
    [] spec_key = <<"metal", 1>> -> {MetalDevices}
    [] spec_key = <<"metal", 2>> -> {MetalProjects, MetalPorts, MetalNullComponents}
    [] OTHER -> {}
Outcomes(spec_key) ==
  {Ok(d) : d \in Served(spec_key)} \cup {HttpStatusError, NetworkError, YamlError}

-----------------------------------------------------------------------------
(* The SpecManager of one cache directory.  update_specs starts one        *)
(* _process_api_group coroutine per enabled namespace (spec_manager.py     *)
(* 73-79); a coroutine gives up control only at the http_client.get of     *)
(* each source, so one step runs from the arrival of a response to the     *)
(* next request, or to the end of the coroutine.                           *)

Idle == [st |-> "idle", i |-> 0, base |-> None]
Failed == [st |-> "failed", i |-> 0, base |-> None]
\* The coroutine returned at `if base_spec is None: return` (spec_manager.py 126-127).
Skipped == [st |-> "skipped", i |-> 0, base |-> None]
Running(i, base_spec) == [st |-> "run", i |-> i, base |-> base_spec]

\* The files that a server whose configuration enabled namespace n left in the
\* cache directory: the fetched source and what save_merged_spec wrote.
LeftRaw(n, doc) == [k \in SpecKeys |-> IF k = <<n, 1>> THEN doc ELSE None]
LeftMerged(n, doc) ==
  [k \in Range(ApiNames) |->
     IF k = n THEN NormalizeGroup(PrependBasePath(doc), Config[n].auth_type) ELSE None]

\* SpecManager.__init__ (spec_manager.py 65-71): the cache directory is made
\* where it does not exist (exist_ok=True); it is empty, or holds the files of
\* fabric from a time when fabric was enabled.
Init ==
  /\ arg = <<>> /\ res = <<>> /\ pc = <<>>
  /\ \/ /\ rawCache = [k \in SpecKeys |-> None]
        /\ mergedCache = [n \in Range(ApiNames) |-> None]
     \/ /\ rawCache = LeftRaw("fabric", FabricConnections)
        /\ mergedCache = LeftMerged("fabric", FabricConnections)
  /\ task = [n \in Range(ApiNames) |-> Idle]
  /\ merged = None
  /\ lastFetch = None

\* update_specs (spec_manager.py 73-79), called when no update is under way.
UpdateSpecs ==
  /\ \A n \in Range(ApiNames) : task[n].st # "run"
  /\ task' = [n \in Range(ApiNames) |->
                IF Config[n].enabled THEN Running(1, None) ELSE task[n]]
  /\ UNCHANGED <<pureVars, rawCache, mergedCache, merged, lastFetch>>

\* base_spec after the source whose fetch returned spec (spec_manager.py 87-124).
Folded(base_spec, spec) ==
  IF spec = None \/ DOMAIN spec = {} THEN base_spec
  ELSE FoldSource(base_spec, PrependBasePath(spec))

\* The end of _process_api_group (126-180): nothing to save, a raised
\* exception, or save_merged_spec.
Finish(n, merged_spec) ==
  IF merged_spec = Raised
  THEN task' = [task EXCEPT ![n] = Failed] /\ UNCHANGED <<mergedCache, merged>>
  ELSE IF merged_spec = None
  THEN task' = [task EXCEPT ![n] = Skipped] /\ merged' = None /\ UNCHANGED mergedCache
  ELSE /\ task' = [task EXCEPT ![n] = Idle]
       /\ mergedCache' = [mergedCache EXCEPT ![n] = merged_spec]
       /\ merged' = None

\* The loop goes on to the next source, or ends.
Continue(n, base_spec) ==
  IF base_spec = Raised
  THEN task' = [task EXCEPT ![n] = Failed] /\ UNCHANGED <<mergedCache, merged>>
  ELSE IF task[n].i < Config[n].specs
  THEN task' = [task EXCEPT ![n] = Running(task[n].i + 1, base_spec)]
         /\ UNCHANGED <<mergedCache, merged>>
  ELSE Finish(n, IF base_spec = None THEN None
                 ELSE NormalizeGroup(base_spec, Config[n].auth_type))

Fetched(n, f) ==
  /\ rawCache' = f.cache
  /\ Continue(n, Folded(task[n].base, f.ret))

\* _process_api_group for namespace n (spec_manager.py 81-180): the response
\* for source i arrives; the source is cached, folded into base_spec and, after
\* the last source, the group is normalized and saved.
Response(n, outcome) ==
  /\ task[n].st = "run"
  /\ Fetched(n, _fetch_and_cache_spec(<<n, task[n].i>>, outcome, rawCache))
  /\ UNCHANGED <<pureVars, lastFetch>>

\* get_merged_spec (spec_manager.py 355-452); merged holds the document until a
\* coroutine of update_specs returns.
GetMergedSpec ==
  /\ merged' = get_merged_spec(mergedCache)
  /\ UNCHANGED <<pureVars, rawCache, mergedCache, task, lastFetch>>

Next ==
  \/ UpdateSpecs
  \/ \E n \in Range(ApiNames) : \E outcome \in Outcomes(<<n, task[n].i>>) : Response(n, outcome)
  \/ GetMergedSpec

Spec == Init /\ [][Next]_vars

(* _fetch_and_cache_spec on its own: any sequence of fetches of the spec   *)
(* keys.                                                                   *)

FetchInit ==
  /\ arg = <<>> /\ res = <<>> /\ pc = <<>>
  /\ rawCache = [k \in SpecKeys |-> None]
  /\ mergedCache = <<>> /\ task = <<>> /\ merged = <<>>
  /\ lastFetch = None

Recorded(spec_key, outcome, f) ==
  /\ rawCache' = f.cache
  /\ lastFetch' = [key |-> spec_key, outcome |-> outcome.kind, doc |-> outcome.doc,
                   before |-> rawCache[spec_key], ret |-> f.ret]

Fetch(spec_key, outcome) ==
  /\ Recorded(spec_key, outcome, _fetch_and_cache_spec(spec_key, outcome, rawCache))
  /\ UNCHANGED <<pureVars, mergedCache, task, merged>>

FetchNext == \E spec_key \in SpecKeys : \E outcome \in Outcomes(spec_key) : Fetch(spec_key, outcome)

SpecFetch == FetchInit /\ [][FetchNext]_vars

-----------------------------------------------------------------------------
(* Properties of the assembled document.                                   *)

\* x is a document (not None, not the outcome of a call that raised).
IsDoc(x) == x # None /\ x # Raised
\* The trees of a document: its path items and the values of its other keys.
TreesOf(doc) ==
  UNION {IF k = "paths" THEN {doc[k][p] : p \in DOMAIN doc[k]} ELSE {doc[k]} : k \in DOMAIN doc}
\* Every "$ref" string of a document, as its pieces.
RefsOf(doc) ==
  {y.v["$ref"].v : y \in {z \in UNION {PlacesOf(x) : x \in TreesOf(doc)} :
                            Has(z, "$ref") /\ IsLeaf(z.v["$ref"])}}
\* The JSON pointer "#/k1/k2/..." leads to a value of the document.
Resolves(doc, ref) ==
  /\ Len(ref) >= 2 /\ ref[1] = "#"
  /\ ref[2] \in DOMAIN doc \ {"paths"}
  /\ Get(doc[ref[2]], SubSeq(ref, 3, Len(ref))) # Undef
\* The operations of a document that have an operationId, and the id of one.
IdentifiedOps(doc) ==
  IF "paths" \in DOMAIN doc
  THEN {pm \in OperationsOf(doc) : Has(OpAt(doc, pm), "operationId")}
  ELSE {}
IdOf(doc, pm) == OpAt(doc, pm).v["operationId"].v
\* The namespaces with a merged file that get_merged_spec loads.
LoadedNames == {n \in Range(ApiNames) : Loaded(mergedCache[n])}

\* C1: every $ref of the document returned by get_merged_spec resolves in that
\* document, when every $ref of each per-namespace spec resolved in its own spec.
C1_RefIntegrity ==
  (/\ IsDoc(merged)
   /\ \A n \in LoadedNames : \A r \in RefsOf(mergedCache[n]) : Resolves(mergedCache[n], r))
  => \A r \in RefsOf(merged) : Resolves(merged, r)

\* C2: the operationIds of the document returned by get_merged_spec are pairwise
\* distinct.
C2_OperationIdsDistinct ==
  IsDoc(merged) =>
    \A a \in IdentifiedOps(merged) : \A b \in IdentifiedOps(merged) :
       a # b => IdOf(merged, a) # IdOf(merged, b)

\* N.title() of the namespace names.
Title(n) == CASE n = "widgets" -> "Widgets" [] n = "metal" -> "Metal" [] n = "fabric" -> "Fabric"
\* The schema names of a per-namespace spec.
SchemasOf(doc) ==
  (IF Has(GetOr(doc, "components", Undef), "schemas")
   THEN DOMAIN doc["components"].v["schemas"].v ELSE {})
  \cup (IF "$defs" \in DOMAIN doc THEN DOMAIN doc["$defs"].v ELSE {})
\* The document has a schema of that name in $defs or in components.schemas.
HasSchema(doc, name) ==
  \/ Has(GetOr(doc, "$defs", Undef), name)
  \/ Has(Get(GetOr(doc, "components", Undef), <<"schemas">>), name)

\* C3: after the merge each schema X of namespace N exists under the name
\* N.title() + X, and a $ref that targeted X is a $ref to that name.
C3_SchemasPrefixed ==
  IsDoc(merged) =>
    \A n \in LoadedNames : \A x \in SchemasOf(mergedCache[n]) :
       /\ HasSchema(merged, Title(n) \o x)
       /\ (SchemaRef(x).v \in RefsOf(mergedCache[n]) \/ DefsRef(x).v \in RefsOf(mergedCache[n]))
            => (SchemaRef(Title(n) \o x).v \in RefsOf(merged)
                  \/ DefsRef(Title(n) \o x).v \in RefsOf(merged))

\* s starts with the pieces of prefix.
StartsWith(s, prefix) == Len(s) >= Len(prefix) /\ SubSeq(s, 1, Len(prefix)) = prefix

\* C4: over every sequence of update_specs and get_merged_spec calls, no
\* operationId of a cached per-namespace spec starts with "{namespace}_", and
\* each operationId of the returned document is "{namespace}_" followed by the
\* operationId that the cached spec of that namespace has at that path and method.
C4_PrefixedOnce ==
  /\ \A n \in LoadedNames : \A pm \in IdentifiedOps(mergedCache[n]) :
        ~StartsWith(IdOf(mergedCache[n], pm), <<n, "_">>)
  /\ IsDoc(merged) =>
       \A pm \in IdentifiedOps(merged) :
          \E n \in LoadedNames :
             /\ pm \in IdentifiedOps(mergedCache[n])
             /\ IdOf(merged, pm) = <<n, "_">> \o IdOf(mergedCache[n], pm)

\* The merge was run again: source 2 of metal has been fetched in one run of
\* update_specs and failed in a later one, so that the merged file of metal was
\* rewritten from source 1 alone, and get_merged_spec ran after that.
C4_Witness ==
  /\ IsDoc(merged)
  /\ rawCache[<<"metal", 2>>] # None
  /\ Loaded(mergedCache["metal"])
  /\ IdentifiedOps(mergedCache["metal"]) = {<<(<<"/", "metal", "/", "v1", "/", "devices">>), "get">>}
  /\ IdOf(merged, <<(<<"/", "metal", "/", "v1", "/", "devices">>), "get">>)
       = <<"metal", "_", "findById">>

\* The widgets scenario: the Swagger 2.0 document was fetched and converted for
\* source 1 of namespace widgets, merged, and get_merged_spec has returned.
WidgetsScenario ==
  /\ IsDoc(merged)
  /\ rawCache[<<"widgets", 1>>] = convert(WidgetsSwagger)
  /\ Loaded(mergedCache["widgets"])
\* The document has a get operation with that operationId at the path.
GetOperationAt(doc, path, id) ==
  /\ path \in DOMAIN doc["paths"]
  /\ Has(doc["paths"][path], "get")
  /\ Has(doc["paths"][path].v["get"], "operationId")
  /\ doc["paths"][path].v["get"].v["operationId"].v = id

\* C7: in the widgets scenario the operation is at paths["/v1/widgets"].get, the
\* base path of the converted server URL in front of the path, with operationId
\* widgets_listWidgets, and the document has no path "/widgets".
C7_WidgetsAtBasePath ==
  WidgetsScenario =>
    /\ GetOperationAt(merged, <<"/", "v1", "/", "widgets">>, <<"widgets", "_", "listWidgets">>)
    /\ <<"/", "widgets">> \notin DOMAIN merged["paths"]

C7_Witness ==
  /\ WidgetsScenario
  /\ mergedCache["widgets"]["servers"] =
       List(<<Map("url" :> Leaf(<<"https", "://", "api.example.com", "/", "v1">>))>>)
  /\ GetOperationAt(merged, <<"/", "v1", "/", "widgets">>, <<"widgets", "_", "listWidgets">>)

\* C7 as stated: in the widgets scenario the operation is at paths["/widgets"].get
\* with operationId widgets_listWidgets.
C7_WidgetsAtPath ==
  WidgetsScenario =>
    GetOperationAt(merged, <<"/", "widgets">>, <<"widgets", "_", "listWidgets">>)

\* C10: a _fetch_and_cache_spec call that fails with a network error, an HTTP
\* error status or a YAML parse error returns the cached copy of the key, and
\* None only when the key has no cached copy.
C10_FailureFallsBackToCache ==
  (lastFetch # None /\ lastFetch.outcome \in {"network", "http_status", "yaml"})
    => lastFetch.ret = lastFetch.before

\* C11: a _fetch_and_cache_spec call whose response is a Swagger 2.0 document on
\* which convert raises returns the document as it was served, unconverted.
C11_ConversionFallsBack ==
  (/\ lastFetch # None
   /\ lastFetch.outcome = "ok"
   /\ GetOr(lastFetch.doc, "swagger", Undef) = Str("2.0")
   /\ convert(lastFetch.doc) = Raised)
    => lastFetch.ret = lastFetch.doc
\* C12: a failure in one namespace is kept inside its _process_api_group
\* coroutine: no coroutine ends by raising, whatever its sources serve, so that
\* asyncio.gather has no exception to re-raise from update_specs.
C12_FailureIsolated == \A n \in Range(ApiNames) : task[n].st # "failed"
\* update_specs has returned or raised: no coroutine is under way.
NoneRunning == \A n \in Range(ApiNames) : task[n].st # "run"
\* The document holds an operation that get_merged_spec prefixed with n.
HasOperationOf(doc, n) ==
  \E pm \in IdentifiedOps(doc) : StartsWith(IdOf(doc, pm), <<n, "_">>)
\* The document holds a schema or another component of the merged file of n.
HasComponentOf(doc, n) ==
  /\ Loaded(mergedCache[n])
  /\ \/ \E x \in SchemasOf(mergedCache[n]) : HasSchema(doc, x)
     \/ \E type \in DOMAIN GetOr(mergedCache[n], "components", Map(EmptyDict)).v \ {"schemas"} :
           \E x \in DOMAIN mergedCache[n]["components"].v[type].v :
              Has(Get(GetOr(doc, "components", Undef), <<type>>), x)

\* C13: when the last run of update_specs obtained none of the sources of
\* namespace n, the document that get_merged_spec returns after that run holds
\* no path and no component of n.
C13_UnobtainedOmitted ==
  \A n \in Range(ApiNames) :
    (IsDoc(merged) /\ NoneRunning /\ task[n].st = "skipped")
      => (~HasOperationOf(merged, n) /\ ~HasComponentOf(merged, n))
\* C14: the document returned by get_merged_spec holds paths and components of
\* enabled namespaces only, also where the cache directory holds the merged
\* file of a namespace that was enabled earlier.
C14_EnabledOnly ==
  \A n \in Range(ApiNames) :
    (IsDoc(merged) /\ ~Config[n].enabled)
      => (~HasOperationOf(merged, n) /\ ~HasComponentOf(merged, n))

\* The operations (path, method) of a spec, which may have no `paths`.
MethodsOf(spec) ==
  {pm \in (DOMAIN GetOr(spec, "paths", <<>>)) \X HttpMethods :
     IsMap(spec["paths"][pm[1]]) /\ pm[2] \in DOMAIN spec["paths"][pm[1]].v}
\* The coroutine of n folds its last source into a base_spec and saves.
SavesFold(n) ==
  /\ task[n].st = "run"
  /\ task[n].i = Config[n].specs
  /\ task[n].base # None
  /\ task'[n].st = "idle"

\* C18: folding a later source into base_spec keeps the operations base_spec
\* had: a path that two sources define with different HTTP methods has the
\* operations of both in the merged spec that is saved.
C18_FoldKeepsBoth ==
  [][\A n \in Range(ApiNames) :
       SavesFold(n) => MethodsOf(task[n].base) \subseteq MethodsOf(mergedCache'[n])]_vars

-----------------------------------------------------------------------------
(* Swagger2OpenAPIConverter.convert on its own: arg is a Swagger 2.0        *)
(* document, res the converted document or Raised.                          *)

DefinitionRef(n) == Ref(Leaf(<<"#", "definitions", n>>))
BodyParam(schema) ==
  Map(("name" :> Str("pet")) @@ ("in" :> Str("body")) @@ ("schema" :> schema))
FormParam(name, type) ==
  Map(("name" :> Str(name)) @@ ("in" :> Str("formData")) @@ ("type" :> Str(type)))
Required(param) == Map(Put(param.v, "required", True))
\* The `parameters` of the operation: none, a body, form fields with and
\* without a file, a body next to a form field, a shared parameter.
SwaggerParameters ==
  { <<>>,
    <<BodyParam(DefinitionRef("Pet"))>>,
    <<Required(FormParam("file", "file"))>>,
    <<FormParam("note", "string")>>,
    <<Required(FormParam("note", "string")), FormParam("file", "file")>>,
    <<BodyParam(DefinitionRef("Pet")), FormParam("note", "string")>>,
    <<Ref(Leaf(<<"#", "parameters", "Limit">>))>> }
\* `consumes` and `produces` of the document: None where the key is missing.
MediaTypes ==
  { None, List(<<Str("application/json")>>), List(<<Str("multipart/form-data")>>) }
\* The `responses` of the operation: None where the key is missing.
SwaggerResponses ==
  { None,
    Map("200" :> Map(("description" :> Str("ok")) @@ ("schema" :> DefinitionRef("Pet")))),
    Map("404" :> Ref(Leaf(<<"#", "responses", "NotFound">>))) }
\* `definitions`: a plain schema, one that refers to another definition, one
\* with a fix-up field.
SwaggerDefinitions ==
  { Map("Pet" :> ObjectSchema("name" :> Map("type" :> Str("string")))),
    Map(("Pet" :> ObjectSchema("owner" :> DefinitionRef("Owner"))) @@
        ("Owner" :> Map("type" :> Str("object")))),
    Map("Pet" :> Map(("type" :> Str("object")) @@ ("x-nullable" :> True))) }
SwaggerOperation(params, responses) ==
  Map(PutIf(responses # None,
            ("operationId" :> Str("addPet")) @@ ("parameters" :> List(params)),
            "responses", responses))
SwaggerDoc(params, responses, consumes, produces, definitions) ==
  PutIf(consumes # None,
        PutIf(produces # None,
              ("swagger" :> Str("2.0")) @@
              ("host" :> Str("api.example.com")) @@
              ("paths" :> (<<"/", "pets">> :> Map("post" :> SwaggerOperation(params, responses)))) @@
              ("parameters" :> Map("Limit" :> Map(("name" :> Str("limit")) @@ ("in" :> Str("query")) @@
                                                  ("type" :> Str("integer"))))) @@
              ("responses" :> Map("NotFound" :> Map("description" :> Str("none")))) @@
              ("definitions" :> definitions),
              "produces", produces),
        "consumes", consumes)
SwaggerDocs ==
  {SwaggerDoc(q[1], q[2], q[3], q[4], q[5]) :
     q \in SwaggerParameters \X SwaggerResponses \X MediaTypes \X (MediaTypes \ {List(<<Str("multipart/form-data")>>)})
            \X SwaggerDefinitions}

ConvertInit ==
  /\ NoManager
  /\ arg \in SwaggerDocs
  /\ res = Undef
  /\ pc = "convert"

Convert ==
  /\ pc = "convert"
  /\ res' = convert(arg)
  /\ pc' = "done"
  /\ UNCHANGED <<arg, mgrVars>>

ConvertNext == Convert

SpecConvert == ConvertInit /\ [][ConvertNext]_vars

Converted == pc = "done" /\ res # Raised
\* A ref that _rewrite_ref rewrites.
OldStyle(ref) ==
  Len(ref) >= 3 /\ ref[1] = "#" /\ ref[2] \in {"definitions", "parameters", "responses"}
\* The definitions entries without a fix-up field that the document refers to.
PlainReferenced(swagger) ==
  {x \in DOMAIN swagger["definitions"].v :
     /\ _fix_up_schema(swagger["definitions"].v[x]) = swagger["definitions"].v[x]
     /\ <<"#", "definitions", x>> \in RefsOf(swagger)}

\* C19: every ref "#/definitions/X" of the input, X a definitions entry with no
\* fix-up field, is "#/components/schemas/X" in the output of convert and leads
\* there to a schema equal to definitions[X]; no ref of the output starts with
\* "#/definitions/", "#/parameters/" or "#/responses/".
C19_RoundTrip ==
  Converted =>
    /\ \A x \in PlainReferenced(arg) :
         /\ <<"#", "components", "schemas", x>> \in RefsOf(res)
         /\ Get(res["components"], <<"schemas", x>>) = arg["definitions"].v[x]
    /\ \A ref \in RefsOf(res) : ~OldStyle(ref)

\* The formData parameters of an operation.
FormDataOf(op) == ParamsIn(GetOr(op.v, "parameters", List(<<>>)).v, {Str("formData")})
FormTypes == {"multipart/form-data", "application/x-www-form-urlencoded"}
\* The content type that the type of the formData parameters asks for.
FormTypeFor(form_data_params) ==
  IF \E i \in DOMAIN form_data_params : GetOr(form_data_params[i].v, "type", Undef) = Str("file")
  THEN "multipart/form-data" ELSE "application/x-www-form-urlencoded"

\* C20: the formData parameters of an operation are in one requestBody entry,
\* under multipart/form-data when one of them has type file and under
\* application/x-www-form-urlencoded otherwise.
C20_FormContentType ==
  Converted =>
    \A pm \in OperationsOf(arg) :
      FormDataOf(OpAt(arg, pm)) # <<>> =>
        /\ IsMap(Get(OpAt(res, pm), <<"requestBody", "content">>))
        /\ DOMAIN Get(OpAt(res, pm), <<"requestBody", "content">>).v \cap FormTypes
             = {FormTypeFor(FormDataOf(OpAt(arg, pm)))}

-----------------------------------------------------------------------------
(* OverlayManager: openapi_overlays/overlay_manager.py.                     *)

\* One action of the loop of apply_overlay (overlay_manager.py 108-116):
\* modified_spec afterwards, or Raised where action.get or the assignment of
\* the title raises.
ApplyAction(modified_spec, action) ==
  IF ~IsMap(action) THEN Raised
  ELSE IF GetOr(action.v, "target", None) = Str("$.info.title") /\ "info" \in DOMAIN modified_spec
  THEN IF IsMap(modified_spec["info"])
       THEN Put(modified_spec, "info",
                Map(Put(modified_spec["info"].v, "title", GetOr(action.v, "update", None))))
       ELSE Raised
  ELSE IF GetOr(action.v, "target", None) = Str("$.servers")
  THEN Put(modified_spec, "servers", GetOr(action.v, "update", None))
  ELSE modified_spec
RECURSIVE ApplyActions(_, _)
ApplyActions(modified_spec, actions) ==
  IF actions = <<>> \/ modified_spec = Raised THEN modified_spec
  ELSE ApplyActions(ApplyAction(modified_spec, Head(actions)), Tail(actions))

\* OverlayManager.apply_overlay (overlay_manager.py 90-118); iterating actions
\* raises where `actions` is None.
apply_overlay(spec, overlay) ==
  IF ~IsList(GetOr(overlay, "actions", List(<<>>))) THEN Raised
  ELSE ApplyActions(spec, GetOr(overlay, "actions", List(<<>>)).v)

(* apply_overlay on its own: arg = [spec, overlay], res the returned spec.  *)

MaxActions == 2
Action(target, update) == Map(("target" :> Str(target)) @@ ("update" :> update))
ActionPool ==
  { Action("$.info.title", Str("New Title")),
    Action("$.info.title", Str("Equinix Metal API")),
    Action("$.servers", List(<<Map("url" :> Leaf(<<"https", "://", "api.equinix.com">>))>>)),
    Action("$.paths.*", Map("path_prefix" :> Leaf(<<"/", "metal", "/", "v1">>))) }
OverlayHead == ("overlay" :> Str("1.0.0"))
Overlays ==
  {OverlayHead, Put(OverlayHead, "actions", None)}
    \cup {Put(OverlayHead, "actions", List(actions)) :
            actions \in UNION {[1..n -> ActionPool] : n \in 0..MaxActions}}
NoPaths == [p \in {} |-> None]
OverlaySpecs ==
  { "paths" :> NoPaths,
    ("paths" :> NoPaths) @@ ("info" :> Map("title" :> Str("Original Title"))),
    ("paths" :> NoPaths) @@ ("info" :> Map(("title" :> Str("Original Title")) @@
                                          ("version" :> Str("1.0.0")))) @@
      ("servers" :> List(<<Map("url" :> Leaf(<<"https", "://", "example.com">>))>>)),
    ("paths" :> NoPaths) @@ ("info" :> None) }

OverlayInit ==
  /\ NoManager
  /\ arg \in [spec : OverlaySpecs, overlay : Overlays]
  /\ res = Undef
  /\ pc = "apply"

ApplyOverlay ==
  /\ pc = "apply"
  /\ res' = apply_overlay(arg.spec, arg.overlay)
  /\ pc' = "done"
  /\ UNCHANGED <<arg, mgrVars>>

OverlayNext == ApplyOverlay

SpecOverlay == OverlayInit /\ [][OverlayNext]_vars

\* The actions of the overlay with target $.info.title.
TitleActions(overlay) ==
  IF IsList(GetOr(overlay, "actions", None))
  THEN SelectSeq(overlay["actions"].v,
                 LAMBDA a : GetOr(a.v, "target", None) = Str("$.info.title"))
  ELSE <<>>

\* C21: an action with target $.info.title on a spec without `info` makes
\* `info` with the update as its title, and every other key of the spec stays.
C21_CreatesInfo ==
  (pc = "done" /\ "info" \notin DOMAIN arg.spec /\ TitleActions(arg.overlay) # <<>>) =>
    /\ res # Raised
    /\ "info" \in DOMAIN res
    /\ Get(res["info"], <<"title">>)
         = TitleActions(arg.overlay)[Len(TitleActions(arg.overlay))].v["update"]
    /\ \A k \in DOMAIN arg.spec : k \in DOMAIN res

-----------------------------------------------------------------------------
(* The overlay files and the cache of the OverlayManager.  arg maps each    *)
(* overlay path to the overlay in the file on disk, None where no file      *)
(* exists; res.overlays_cache maps each path to its cache entry, None where *)
(* the key is missing; res.last is the last call with the overlay it        *)
(* returned or applied and the cache entry of its path before the call.     *)

OverlayPaths == {"overlays/metal.yaml", "overlays/fabric.yaml"}
OverlayFiles ==
  { Put(OverlayHead, "actions", List(<<Action("$.info.title", Str("New Title"))>>)),
    Put(OverlayHead, "actions", List(<<Action("$.info.title", Str("Equinix Metal API"))>>)) }
Called(op, overlay_path, overlay) ==
  [op |-> op, path |-> overlay_path, overlay |-> overlay,
   cached |-> res.overlays_cache[overlay_path]]

\* OverlayManager.__init__ (overlay_manager.py 13-15) in a directory that
\* holds any overlay files.
OverlayCacheInit ==
  /\ NoManager
  /\ arg \in [OverlayPaths -> OverlayFiles \cup {None}]
  /\ res = [overlays_cache |-> [p \in OverlayPaths |-> None], last |-> None]
  /\ pc = "serving"

\* Somebody edits, creates or removes an overlay file.
WriteOverlayFile(overlay_path, content) ==
  /\ arg[overlay_path] # content
  /\ arg' = [arg EXCEPT ![overlay_path] = content]
  /\ UNCHANGED <<res, pc, mgrVars>>

\* OverlayManager.load_overlay (overlay_manager.py 17-37).
load_overlay(overlay_path) ==
  /\ res' = IF arg[overlay_path] = None
            THEN [res EXCEPT !.last = Called("load_overlay", overlay_path, None)]
            ELSE [overlays_cache |-> [res.overlays_cache EXCEPT ![overlay_path] = arg[overlay_path]],
                  last |-> Called("load_overlay", overlay_path, arg[overlay_path])]
  /\ UNCHANGED <<arg, pc, mgrVars>>

\* SpecManager._merge_api_spec for a source with this overlay
\* (spec_manager.py 229-239): the overlay that is handed to the overlay manager.
_merge_api_spec(overlay_path) ==
  /\ arg[overlay_path] # None
  /\ res' = [res EXCEPT !.last = Called("_merge_api_spec", overlay_path, arg[overlay_path])]
  /\ UNCHANGED <<arg, pc, mgrVars>>

\* OverlayManager.clear_cache (overlay_manager.py 131-133), and the empty cache
\* of a process that has been started again.
clear_cache ==
  /\ res' = [overlays_cache |-> [p \in OverlayPaths |-> None], last |-> None]
  /\ UNCHANGED <<arg, pc, mgrVars>>

OverlayCacheNext ==
  \/ \E overlay_path \in OverlayPaths : \E content \in OverlayFiles \cup {None} :
        WriteOverlayFile(overlay_path, content)
  \/ \E overlay_path \in OverlayPaths : load_overlay(overlay_path)
  \/ \E overlay_path \in OverlayPaths : _merge_api_spec(overlay_path)
  \/ clear_cache

SpecOverlayCache == OverlayCacheInit /\ [][OverlayCacheNext]_vars

\* C22: once an overlay has been loaded for a path, load_overlay and the
\* namespace merge use the loaded overlay, whatever the file on disk holds
\* by then, until clear_cache or a restart.
C22_LoadedOnce ==
  (res.last # None /\ res.last.cached # None) => res.last.overlay = res.last.cached

-----------------------------------------------------------------------------
(* The path normalization of _process_api_group (spec_manager.py 90-108)   *)
(* on its own: arg is a fetched document, res the document with its new    *)
(* `paths`.                                                                *)

ServerLists ==
  { None,
    List(<<>>),
    List(<<Map("url" :> Leaf(<<"https", "://", "api.equinix.com", "/", "metal", "/", "v1">>))>>),
    List(<<Map("url" :> Leaf(<<"https", "://", "api.equinix.com", "/", "metal", "/", "v1", "/">>))>>),
    List(<<Map("url" :> Leaf(<<"/", "metal", "/", "v1">>))>>),
    List(<<Map("url" :> Leaf(<<"https", "://", "api.equinix.com">>))>>),
    List(<<Map("url" :> Leaf(<<"https", "://", "api.equinix.com", "/">>)),
           Map("url" :> Leaf(<<"/", "metal", "/", "v1">>))>>) }
PathPool ==
  { <<"/", "devices">>, <<"/", "projects">>,
    <<"/", "metal", "/", "v1", "/", "devices">>, <<"/", "metal", "/", "v1">> }
PathItemOf(path) == Map("get" :> Map("summary" :> Leaf(path)))
FetchedDocs ==
  {PutIf(servers # None,
         ("openapi" :> Str("3.0.0")) @@ ("paths" :> [path \in keys |-> PathItemOf(path)]),
         "servers", servers) : servers \in ServerLists, keys \in SUBSET PathPool}

BasePathInit ==
  /\ NoManager
  /\ arg \in FetchedDocs
  /\ res = Undef
  /\ pc = "prepend"

Prepend ==
  /\ pc = "prepend"
  /\ res' = PrependBasePath(arg)
  /\ pc' = "done"
  /\ UNCHANGED <<arg, mgrVars>>

BasePathNext == Prepend

SpecBasePath == BasePathInit /\ [][BasePathNext]_vars

\* The path as the normalization should leave it.
NormalPath(base_path, path) ==
  IF StartsWith(path, base_path) THEN path ELSE base_path \o path

\* C23: a path that lacks the base path of the namespace gets it prepended, and
\* a path that begins with the base path stays as it is, with its path item.
C23_NoDoublePrefix ==
  (pc = "done" /\ BasePath(arg) # <<>>) =>
    /\ DOMAIN res["paths"] = {NormalPath(BasePath(arg), path) : path \in DOMAIN arg["paths"]}
    /\ \A path \in DOMAIN arg["paths"] :
         arg["paths"][path] \in {res["paths"][q] : q \in DOMAIN res["paths"]}

-----------------------------------------------------------------------------
(* AuthManager (auth.py) and AuthenticatedClient (main.py).  arg is the    *)
(* AuthManager as __init__ leaves it (the configuration and the            *)
(* credentials of the environment), res holds _token_cache, the number of  *)
(* token requests since the last clear_token_cache and the last completed  *)
(* call, pc holds each concurrent caller's position.                       *)

MaxRequests == 2
Callers == {"a", "b"}
Tokens == {"tokenA", "tokenB"}

ValueError == [t |-> "raised", v |-> <<"ValueError">>]
HTTPStatusError == [t |-> "raised", v |-> <<"HTTPStatusError">>]
\* The call is suspended in `await client.post(token_url, ...)`.
Pending == [t |-> "pending", v |-> <<>>]

ApiAuthTypes ==
  { ("metal" :> "metal_token") @@ ("fabric" :> "client_credentials")
      @@ ("network-edge" :> "client_credentials") @@ ("billing" :> "client_credentials"),
    ("metal" :> "metal_token") @@ ("fabric" :> "client_credentials")
      @@ ("billing" :> "api_key") }
AuthManagers ==
  [ apis : ApiAuthTypes,
    client_id : {None, Leaf(<<>>), Str("id")},
    client_secret : {None, Str("secret")},
    metal_token : {None, Str("metal-token")} ]

ServiceNames == {"metal", "fabric", "network-edge", "billing", "unknown"}
Urls ==
  { <<"https://api.equinix.com", "/metal/", "v1/devices">>,
    <<"/fabric/", "v4/ports">>,
    <<"https://api.equinix.com", "/network-edge/", "v1/devices">>,
    <<"/billing/", "v2/invoices">>,
    <<"https://api.equinix.com", "/identity/", "v1/users">>,
    <<"/fabric/", "v4", "/metal/", "gateways">> }
RequestHeaders == {Map("Accept" :> Str("application/json"))}
Requests == [url : Urls, headers : RequestHeaders]

\* `piece in url`
In(piece, url) == \E i \in DOMAIN url : url[i] = piece

_get_service_from_url(url) ==
  IF In("/metal/", url) THEN "metal"
  ELSE IF In("/fabric/", url) THEN "fabric"
  ELSE IF In("/network-edge/", url) THEN "network-edge"
  ELSE IF In("/billing/", url) THEN "billing"
  ELSE "unknown"

_get_metal_auth_header(self) ==
  IF ~Truthy(self.metal_token) THEN ValueError
  ELSE Map("X-Auth-Token" :> self.metal_token)

cache_key(self) == self.client_id.v \o <<":">> \o self.client_secret.v
Bearer(token) == Map("Authorization" :> Leaf(<<"Bearer ", token>>))

\* The slip of checking the client id only.
_get_client_credentials_auth_headerIdOnly(self, _token_cache) ==
  IF ~Truthy(self.client_id) THEN ValueError
  ELSE IF cache_key(self) \in DOMAIN _token_cache THEN Bearer(_token_cache[cache_key(self)])
  ELSE Pending

\* The part of _get_client_credentials_auth_header (auth.py 79-103) that runs
\* before the token request.
_get_client_credentials_auth_header(self, _token_cache) ==
  IF ~Truthy(self.client_id) \/ ~Truthy(self.client_secret) THEN ValueError
  ELSE IF cache_key(self) \in DOMAIN _token_cache THEN Bearer(_token_cache[cache_key(self)])
  ELSE Pending

get_auth_header(self, _token_cache, service_name) ==
  IF service_name \notin DOMAIN self.apis THEN ValueError
  ELSE IF self.apis[service_name] = "metal_token" THEN _get_metal_auth_header(self)
  ELSE IF self.apis[service_name] = "client_credentials"
  THEN _get_client_credentials_auth_header(self, _token_cache)
  ELSE ValueError

\* What request/send hand to the underlying client once get_auth_header has
\* returned or raised: the exception is logged and the request goes out.
Forwarded(op, request, auth_header) ==
  IF op = "get_auth_header" THEN None
  ELSE [url |-> request.url,
        headers |-> IF auth_header.t = "raised" THEN request.headers
                    ELSE Map(Update(request.headers.v, auth_header.v))]

Completed(op, service_name, request, ret, cache_before, cache_after, requested) ==
  [op |-> op, service |-> service_name, ret |-> ret, cache_before |-> cache_before,
   cache_after |-> cache_after, requested |-> requested,
   forwarded |-> Forwarded(op, request, ret)]

NoCall == [at |-> "idle"]

AuthManagerInit ==
  /\ NoManager
  /\ arg \in AuthManagers
  /\ res = [_token_cache |-> <<>>, requests |-> 0, last |-> None]
  /\ pc = [c \in Callers |-> NoCall]

\* A call up to its first suspension: it completes, or it is left waiting for
\* the token response.
Enter(c, op, service_name, request) ==
  /\ pc[c] = NoCall
  /\ IF get_auth_header(arg, res._token_cache, service_name) = Pending
     THEN /\ res.requests < MaxRequests
          /\ pc' = [pc EXCEPT ![c] = [at |-> "token", op |-> op, service |-> service_name,
                                      request |-> request, cache_before |-> res._token_cache]]
          /\ res' = [res EXCEPT !.requests = @ + 1]
     ELSE /\ pc' = pc
          /\ res' = [res EXCEPT !.last =
                       Completed(op, service_name, request,
                                 get_auth_header(arg, res._token_cache, service_name),
                                 res._token_cache, res._token_cache, FALSE)]
  /\ UNCHANGED <<arg, mgrVars>>

GetAuthHeader == \E c \in Callers, service_name \in ServiceNames :
  Enter(c, "get_auth_header", service_name, None)
ClientRequest == \E c \in Callers, request \in Requests :
  Enter(c, "request", _get_service_from_url(request.url), request)
ClientSend == \E c \in Callers, request \in Requests :
  Enter(c, "send", _get_service_from_url(request.url), request)

\* _get_access_token returns the token of the response and the caller stores it.
TokenGranted == \E c \in Callers, token \in Tokens :
  /\ pc[c].at = "token"
  /\ pc' = [pc EXCEPT ![c] = NoCall]
  /\ res' = [res EXCEPT
               !._token_cache = Put(@, cache_key(arg), token),
               !.last = Completed(pc[c].op, pc[c].service, pc[c].request, Bearer(token),
                                  pc[c].cache_before,
                                  Put(res._token_cache, cache_key(arg), token), TRUE)]
  /\ UNCHANGED <<arg, mgrVars>>

\* raise_for_status raises, or the response has no access_token.
TokenRefused == \E c \in Callers, error \in {HTTPStatusError, ValueError} :
  /\ pc[c].at = "token"
  /\ pc' = [pc EXCEPT ![c] = NoCall]
  /\ res' = [res EXCEPT
               !.last = Completed(pc[c].op, pc[c].service, pc[c].request, error,
                                  pc[c].cache_before, res._token_cache, TRUE)]
  /\ UNCHANGED <<arg, mgrVars>>

clear_token_cache ==
  /\ res' = [res EXCEPT !._token_cache = <<>>, !.requests = 0]
  /\ UNCHANGED <<arg, pc, mgrVars>>

AuthManagerNext ==
  \/ GetAuthHeader
  \/ ClientRequest
  \/ ClientSend
  \/ TokenGranted
  \/ TokenRefused
  \/ clear_token_cache

SpecAuthManager == AuthManagerInit /\ [][AuthManagerNext]_vars

\* C24: every request that request or send forwards to the underlying client
\* carries the header get_auth_header returns for the service derived from the
\* URL; no request is forwarded without it.
C24_ForwardedWithAuthHeader ==
  (res.last # None /\ res.last.forwarded # None) =>
    /\ res.last.service = _get_service_from_url(res.last.forwarded.url)
    /\ res.last.ret.t = "map"
    /\ \A name \in DOMAIN res.last.ret.v :
         /\ name \in DOMAIN res.last.forwarded.headers.v
         /\ res.last.forwarded.headers.v[name] = res.last.ret.v[name]

\* The environment variable is unset or empty.
Missing(value) == value \in {None, Leaf(<<>>)}
\* The service is not configured, or it is configured with credentials that
\* the environment lacks.
Lacks(self, service_name) ==
  \/ service_name \notin DOMAIN self.apis
  \/ /\ service_name \in DOMAIN self.apis
     /\ \/ self.apis[service_name] = "metal_token" /\ Missing(self.metal_token)
        \/ /\ self.apis[service_name] = "client_credentials"
           /\ (Missing(self.client_id) \/ Missing(self.client_secret))

\* C25: get_auth_header raises ValueError for a service that is not configured,
\* a metal_token service without EQUINIX_METAL_TOKEN and a client_credentials
\* service without EQUINIX_CLIENT_ID or EQUINIX_CLIENT_SECRET; the call makes
\* no token request and leaves the token cache as it was.
C25_RaisesValueError ==
  (res.last # None /\ Lacks(arg, res.last.service)) =>
    /\ res.last.ret = ValueError
    /\ ~res.last.requested
    /\ res.last.cache_after = res.last.cache_before
\* A call for a service without credentials fails while a token is cached.
C25_Witness ==
  /\ res.last # None
  /\ Lacks(arg, res.last.service)
  /\ DOMAIN res.last.cache_before # {}

\* C30: at most one token request goes out between two clear_token_cache calls,
\* whatever the interleaving of the concurrent get_auth_header calls, and a call
\* that finds a token in the cache returns that token.
C30_SingleTokenRequest ==
  /\ res.requests <= 1
  /\ (res.last # None /\ ~Lacks(arg, res.last.service)
        /\ arg.apis[res.last.service] = "client_credentials"
        /\ cache_key(arg) \in DOMAIN res.last.cache_before) =>
       res.last.ret = Bearer(res.last.cache_before[cache_key(arg)])

\* C29: over any sequence of successful and failed fetches, the raw cache entry
\* of a spec key changes only in a fetch of that key whose response was
\* fetched, parsed and converted, and then to the document obtained; a fetch
\* that fails at any of these steps leaves every entry as it was.
C29_WrittenOnlyOnSuccess ==
  [][\A spec_key \in SpecKeys :
       rawCache'[spec_key] # rawCache[spec_key] =>
         /\ lastFetch'.key = spec_key
         /\ lastFetch'.outcome = "ok"
         /\ Parsed(lastFetch'.doc) # Raised
         /\ rawCache'[spec_key] = Parsed(lastFetch'.doc)]_vars
\* A fetch failed (in the request, the parse or the conversion) for a key that
\* has an entry, and the entry is still the one of the earlier fetch.
C29_Witness ==
  /\ lastFetch # None
  /\ lastFetch.before # None
  /\ rawCache[lastFetch.key] = lastFetch.before
  /\ \/ lastFetch.outcome \in {"network", "http_status", "yaml"}
     \/ lastFetch.outcome = "ok" /\ Parsed(lastFetch.doc) = Raised

-----------------------------------------------------------------------------
(* EquinixMCPServer.initialize (equinix_docs_mcp_server/main.py 215-233)   *)
(* over the SpecManager: arg is the call's argument, pc the position of    *)
(* initialize, res the state of the SpecManager at the moment              *)
(* get_merged_spec ran.                                                    *)

has_all_cached_specs(cache) ==
  \A n \in Range(ApiNames) : Config[n].enabled => cache[n] # None

\* The cache directory of a server that ran before with the same configuration.
FirstSource(n) == IF n = "widgets" THEN WidgetsOpenApi ELSE MetalDevices
LeftRawEnabled ==
  [k \in SpecKeys |-> IF Config[k[1]].enabled /\ k[2] = 1 THEN FirstSource(k[1]) ELSE None]
LeftMergedEnabled ==
  [n \in Range(ApiNames) |->
     IF Config[n].enabled
     THEN NormalizeGroup(PrependBasePath(FirstSource(n)), Config[n].auth_type) ELSE None]

InitializeInit ==
  /\ arg \in [force_update_specs : BOOLEAN]
  /\ res = None
  /\ pc = "initialize"
  /\ \/ /\ rawCache = [k \in SpecKeys |-> None]
        /\ mergedCache = [n \in Range(ApiNames) |-> None]
     \/ /\ rawCache = LeftRaw("fabric", FabricConnections)
        /\ mergedCache = LeftMerged("fabric", FabricConnections)
     \/ /\ rawCache = LeftRaw("widgets", WidgetsOpenApi)
        /\ mergedCache = LeftMerged("widgets", WidgetsOpenApi)
     \/ /\ rawCache = LeftRawEnabled
        /\ mergedCache = LeftMergedEnabled
  /\ task = [n \in Range(ApiNames) |-> Idle]
  /\ merged = None
  /\ lastFetch = None

\* merged_spec = self.spec_manager.get_merged_spec() (main.py 233).
Assemble ==
  /\ merged' = get_merged_spec(mergedCache)
  /\ res' = [running |-> {n \in Range(ApiNames) : task[n].st = "run"},
             missing |-> {n \in Range(ApiNames) : Config[n].enabled /\ mergedCache[n] = None}]
  /\ pc' = "serving"

\* initialize up to its first suspension (main.py 222-233): update_specs is
\* awaited, or the cached specs are assembled at once.
InitializeStart ==
  /\ pc = "initialize"
  /\ IF arg.force_update_specs \/ ~has_all_cached_specs(mergedCache)
     THEN /\ task' = [n \in Range(ApiNames) |->
                        IF Config[n].enabled THEN Running(1, None) ELSE task[n]]
          /\ pc' = "update_specs"
          /\ UNCHANGED <<res, merged>>
     ELSE Assemble /\ UNCHANGED task
  /\ UNCHANGED <<arg, rawCache, mergedCache, lastFetch>>

\* asyncio.gather re-raises the exception of a coroutine, and initialize ends.
GatherRaised ==
  /\ pc = "update_specs"
  /\ \E n \in Range(ApiNames) : task[n].st = "failed"
  /\ pc' = "raised"
  /\ UNCHANGED <<arg, res, mgrVars>>

\* Every coroutine has returned: update_specs returns and initialize goes on.
GatherReturned ==
  /\ pc = "update_specs"
  /\ \A n \in Range(ApiNames) : task[n].st \notin {"run", "failed"}
  /\ Assemble
  /\ UNCHANGED <<arg, rawCache, mergedCache, task, lastFetch>>

InitializeNext ==
  \/ InitializeStart
  \/ \E n \in Range(ApiNames) : \E outcome \in Outcomes(<<n, task[n].i>>) : Response(n, outcome)
  \/ GatherRaised
  \/ GatherReturned

SpecInitialize == InitializeInit /\ [][InitializeNext]_vars

\* C26: in initialize, get_merged_spec never runs while a namespace merge that
\* update_specs started is in progress, and never while some enabled namespace
\* has no cached merged spec.
C26_AssemblyGated ==
  res # None => (res.running = {} /\ res.missing = {})

-----------------------------------------------------------------------------
(* EquinixMCPServer._attach_defs_to_tool_schemas                           *)
(* (equinix_docs_mcp_server/main.py 613-655) for one tool: arg holds the   *)
(* merged spec, the tool's output_schema and what self.mcp gives, res the  *)
(* output_schema afterwards.                                               *)

\* _closure_defs (main.py 597-611) as a function of its arguments.
RECURSIVE _closure_defs(_, _)
_closure_defs(used, defs) ==
  IF ClosurePassUsed(used, defs) = used THEN ClosureResult(used, defs)
  ELSE _closure_defs(ClosurePassUsed(used, defs), defs)

\* `referenced` (main.py 635-643).
Referenced(output_schema) ==
  _collect_defs_references(output_schema) \cup
    (IF /\ Truthy(GetOr(output_schema.v, "x-fastmcp-wrap-result", None))
        /\ IsMap(GetOr(output_schema.v, "properties", None))
        /\ IsMap(GetOr(output_schema.v["properties"].v, "result", None))
     THEN _collect_defs_references(output_schema.v["properties"].v["result"])
     ELSE {})

\* The body of the loop over the tools (main.py 630-655).
AttachDefs(output_schema, all_defs) ==
  IF ~IsMap(output_schema) THEN output_schema
  ELSE IF Referenced(output_schema) = {} THEN output_schema
  ELSE IF Truthy(GetOr(output_schema.v, "$defs", None)) /\ IsMap(output_schema.v["$defs"])
  THEN Map(Put(output_schema.v, "$defs",
               Map(Update(output_schema.v["$defs"].v,
                          _closure_defs(Referenced(output_schema), all_defs)))))
  ELSE Map(Put(output_schema.v, "$defs",
               Map(_closure_defs(Referenced(output_schema), all_defs))))

_attach_defs_to_tool_schemas(mcp, merged_spec, output_schema) ==
  IF mcp # "tools" THEN output_schema
  ELSE IF ~IsMap(GetOr(merged_spec, "$defs", Map(EmptyDict)))
          \/ ~Truthy(GetOr(merged_spec, "$defs", Map(EmptyDict)))
  THEN output_schema
  ELSE AttachDefs(output_schema, merged_spec["$defs"].v)

\* A reference below a definition: "#/$defs/<n>/properties/item".
ItemRef(n) == Map("$ref" :> Leaf(<<"#", "$defs", n, "properties", "item">>))
MergedDefs == UNION {[ks -> {PlainSchema} \cup {PropRef(n) : n \in Names}] : ks \in SUBSET Names}
MergedSpecs ==
  {"openapi" :> Str("3.1.0"), ("openapi" :> Str("3.1.0")) @@ ("$defs" :> None)}
    \cup {("openapi" :> Str("3.1.0")) @@ ("$defs" :> Map(defs)) : defs \in MergedDefs}
OwnDefs ==
  { EmptyDict,
    "$defs" :> Map(EmptyDict),
    "$defs" :> Map(DefNames[1] :> PropRef(DefNames[2])),
    "$defs" :> Map(DefNames[2] :> PlainSchema) }
SchemaBodies ==
  { "type" :> Str("object"),
    "$ref" :> DefsRef(DefNames[1]),
    ("type" :> Str("array")) @@ ("items" :> ItemRef(DefNames[1])),
    ("anyOf" :> List(<<Map("$ref" :> DefsRef(DefNames[2])), Map("type" :> Str("null"))>>)),
    ("type" :> Str("object")) @@ ("x-fastmcp-wrap-result" :> True)
      @@ ("properties" :> Map("result" :> Map("$ref" :> DefsRef(DefNames[1])))) }
OutputSchemas == {None} \cup {Map(body @@ own) : body \in SchemaBodies, own \in OwnDefs}

AttachInit ==
  /\ NoManager
  /\ arg \in [mcp : {"none", "raises", "tools"}, merged_spec : MergedSpecs,
              output_schema : OutputSchemas]
  /\ res = Undef
  /\ pc = "attach"

Attach ==
  /\ pc = "attach"
  /\ res' = _attach_defs_to_tool_schemas(arg.mcp, arg.merged_spec, arg.output_schema)
  /\ pc' = "done"
  /\ UNCHANGED <<arg, mgrVars>>

AttachNext == Attach

SpecAttach == AttachInit /\ [][AttachNext]_vars

\* The "#/$defs/..." references anywhere in x, as their pieces.
DefsRefsIn(x) ==
  {y.v["$ref"].v : y \in {z \in PlacesOf(x) :
                            Has(z, "$ref") /\ IsLeaf(z.v["$ref"]) /\ StartsWithDefs(z.v["$ref"].v)}}
\* The reference leads to a value below defs.
ResolvesIn(ref, defs) ==
  ref[3] \in DOMAIN defs /\ Get(defs[ref[3]], SubSeq(ref, 4, Len(ref))) # Undef
\* The dict at key "$defs", empty where there is none.
DefsOf(f) ==
  IF IsMap(GetOr(f, "$defs", None)) THEN f["$defs"].v ELSE EmptyDict

\* C27: after _attach_defs_to_tool_schemas, every "#/$defs/..." reference
\* anywhere in the output_schema of a tool that holds such a reference, the
\* attached $defs included, resolves within output_schema["$defs"], when every
\* reference of the schema and of the merged $defs is defined in the merged
\* spec's $defs or in the tool's own $defs.
C27_AttachedRefsResolve ==
  (/\ pc = "done"
   /\ arg.mcp = "tools"
   /\ IsMap(arg.output_schema)
   /\ DefsRefsIn(arg.output_schema) # {}
   /\ \A ref \in DefsRefsIn(arg.output_schema) \cup DefsRefsIn(Map(DefsOf(arg.merged_spec))) :
        \/ ResolvesIn(ref, DefsOf(arg.merged_spec))
        \/ ResolvesIn(ref, DefsOf(arg.output_schema.v)))
   => \A ref \in DefsRefsIn(res) : ResolvesIn(ref, DefsOf(res.v))

-----------------------------------------------------------------------------
(* ArazzoManager._execute_with_foreach                                     *)
(* (equinix_docs_mcp_server/arazzo_manager.py 480-679) on a workflow whose *)
(* forEach step "loop" iterates $inputs.items and whose output `results`   *)
(* is $steps.loop.outputs.valPlusOne.  arg is the workflow and its inputs, *)
(* pc the position in the steps, res the step_outputs, the aggregated      *)
(* lists of the loop under way and the outputs of the result.              *)

MaxItems == 2
ItemVals == {1, 2}
Items == UNION {[1..n -> [val : ItemVals]] : n \in 0..MaxItems}
\* The nested steps of the loop; a step without operationId is skipped.
NestedSteps ==
  { <<[stepId |-> "echo", operationId |-> TRUE]>>,
    <<[stepId |-> "lookup", operationId |-> TRUE], [stepId |-> "echo", operationId |-> TRUE]>>,
    <<[stepId |-> "echo", operationId |-> TRUE], [stepId |-> "note", operationId |-> FALSE]>> }
\* The steps of the workflow: the loop alone, or a plain step before it.
Workflows == [steps : {<<"loop">>, <<"prepare", "loop">>}, nested : NestedSteps]

\* What execute_step comes to for a nested step on an item: the step returns
\* its outputs, or the call raises and the handler puts empty outputs in its place.
ExecuteStep(outcome, item) ==
  IF outcome = "raises" THEN [success |-> FALSE, outputs |-> <<>>]
  ELSE [success |-> TRUE, outputs |-> ("valPlusOne" :> item.val + 1)]

\* nested_state.step_outputs after the nested steps of one item, given the
\* outcome of each step.
RECURSIVE NestedOutputs(_, _, _)
NestedOutputs(nested_steps, outcomes, item) ==
  IF nested_steps = <<>> THEN <<>>
  ELSE IF ~nested_steps[Len(nested_steps)].operationId
  THEN NestedOutputs(SubSeq(nested_steps, 1, Len(nested_steps) - 1), outcomes, item)
  ELSE Put(NestedOutputs(SubSeq(nested_steps, 1, Len(nested_steps) - 1), outcomes, item),
           nested_steps[Len(nested_steps)].stepId,
           ExecuteStep(outcomes[Len(nested_steps)], item).outputs)

\* aggregated.setdefault(k, []).append(v) for every output of the last nested step.
Aggregate(aggregated, nested_steps, nested_outputs) ==
  IF nested_steps # <<>> /\ nested_steps[Len(nested_steps)].stepId \in DOMAIN nested_outputs
  THEN [k \in DOMAIN aggregated \cup DOMAIN nested_outputs[nested_steps[Len(nested_steps)].stepId] |->
          IF k \in DOMAIN nested_outputs[nested_steps[Len(nested_steps)].stepId]
          THEN Append(GetOr(aggregated, k, <<>>),
                      nested_outputs[nested_steps[Len(nested_steps)].stepId][k])
          ELSE aggregated[k]]
  ELSE aggregated

\* _resolve_simple on "$steps.<st>.outputs.<out>".
_resolve_simple(step_outputs, st, out) ==
  IF st \in DOMAIN step_outputs /\ out \in DOMAIN step_outputs[st]
  THEN List(step_outputs[st][out]) ELSE None

\* final_outputs (arazzo_manager.py 661-669).
FinalOutputs(step_outputs) == "results" :> _resolve_simple(step_outputs, "loop", "valPlusOne")

ForEachInit ==
  /\ NoManager
  /\ arg \in [workflow : Workflows, items : {List(items) : items \in Items} \cup {None}]
  /\ res = [step_outputs |-> <<>>, aggregated |-> <<>>, outputs |-> None]
  /\ pc = [at |-> "steps", step |-> 1, item |-> 0]

\* A step without forEach: the whole workflow is handed to the runner, whose
\* result is returned, or whose exception ends the loop over the steps.
DelegateStep == \E outcome \in {"returns", "raises"} :
  /\ pc.at = "steps"
  /\ arg.workflow.steps[pc.step] # "loop"
  /\ IF outcome = "returns"
     THEN pc' = [pc EXCEPT !.at = "returned"] /\ res' = res
     ELSE /\ pc' = [pc EXCEPT !.at = "done"]
          /\ res' = [res EXCEPT !.outputs = FinalOutputs(res.step_outputs)]
  /\ UNCHANGED <<arg, mgrVars>>

\* The forEach step is reached: coll is resolved and aggregated is empty.
EnterForEach ==
  /\ pc.at = "steps"
  /\ arg.workflow.steps[pc.step] = "loop"
  /\ pc' = [pc EXCEPT !.at = "forEach", !.item = 1]
  /\ res' = [res EXCEPT !.aggregated = <<>>]
  /\ UNCHANGED <<arg, mgrVars>>

\* `coll` (arazzo_manager.py 574-577).
Coll == IF arg.items = None THEN <<>> ELSE arg.items.v

\* One iteration of `for item in coll`.
ForEachItem == \E outcomes \in [1..Len(arg.workflow.nested) -> {"returns", "raises"}] :
  /\ pc.at = "forEach"
  /\ pc.item <= Len(Coll)
  /\ res' = [res EXCEPT !.aggregated =
               Aggregate(@, arg.workflow.nested,
                         NestedOutputs(arg.workflow.nested, outcomes, Coll[pc.item]))]
  /\ pc' = [pc EXCEPT !.item = @ + 1]
  /\ UNCHANGED <<arg, mgrVars>>

\* The loop is over: step_outputs[step_id] = aggregated; the forEach step is the
\* last step, so the outputs are built and the result is returned.
LeaveForEach ==
  /\ pc.at = "forEach"
  /\ pc.item > Len(Coll)
  /\ res' = [res EXCEPT !.step_outputs = Put(@, "loop", res.aggregated),
                        !.outputs = FinalOutputs(Put(res.step_outputs, "loop", res.aggregated))]
  /\ pc' = [pc EXCEPT !.at = "done"]
  /\ UNCHANGED <<arg, mgrVars>>

ForEachNext ==
  \/ DelegateStep
  \/ EnterForEach
  \/ ForEachItem
  \/ LeaveForEach

SpecForEach == ForEachInit /\ [][ForEachNext]_vars

\* C28: when _execute_with_foreach has run a forEach step over n items,
\* step_outputs["loop"]["valPlusOne"] is the list of the values of the last
\* nested step, one entry per item and in item order, and the workflow output
\* mapped to $steps.loop.outputs.valPlusOne equals that list.
C28_OneEntryPerItem ==
  (pc.at = "done" /\ pc.item > 0 /\ arg.workflow.nested[Len(arg.workflow.nested)].operationId) =>
    /\ "loop" \in DOMAIN res.step_outputs
    /\ "valPlusOne" \in DOMAIN res.step_outputs["loop"]
    /\ res.step_outputs["loop"]["valPlusOne"] = [i \in 1..Len(Coll) |-> Coll[i].val + 1]
    /\ res.outputs["results"] = List(res.step_outputs["loop"]["valPlusOne"])

====
